---- MODULE Spec2Model ----
(***************************************************************************)
(* Model of the expression evaluator, the variable dependency resolver and *)
(* the template string renderer of doc-template-kit                        *)
(* (src/core/expr.ts, src/core/vars.ts, src/core/templateStrings.ts,       *)
(* src/core/evaluate.ts).                                                  *)
(*                                                                         *)
(* Values are tagged records [t |-> tag, v |-> payload].  A string value   *)
(* is the sequence of its characters, so that concatenation, trimming and  *)
(* case folding are computed and not assumed.  Error messages and          *)
(* expression sources are sequences of lexical atoms: the code only ever   *)
(* concatenates and compares them.                                         *)
(***************************************************************************)
EXTENDS Integers, Sequences, FiniteSets, TLC

(***************************************************************************)
(* JavaScript values                                                       *)
(***************************************************************************)
Undefined == [t |-> "undefined"]
Null == [t |-> "null"]
NaN == [t |-> "NaN"]
\* numbers: Num(n) is the integer n (Num(0) is +0), NegZero is -0, Inf(s) is
\* the infinity of sign s, Ratio(p, q) is the non-integer p/q in lowest
\* terms with q > 1.  Ratios are exact where a double is rounded.
NegZero == [t |-> "negzero"]
Inf(s) == [t |-> "infinity", v |-> s]
Ratio(p, q) == [t |-> "ratio", v |-> <<p, q>>]
\* typeof x === 'number'
IsNumber(x) == x.t \in {"number", "negzero", "infinity", "ratio", "NaN"}
Bool(b) == [t |-> "boolean", v |-> b]
Num(n) == [t |-> "number", v |-> n]
Str(s) == [t |-> "string", v |-> s]
Arr(s) == [t |-> "array", v |-> s]
\* an object whose prototype is Object.prototype; v maps own keys to values
Obj(f) == [t |-> "object", v |-> f]
\* an object whose prototype is not Object.prototype (v: its own keys)
Exotic(f) == [t |-> "exotic", v |-> f]
\* a function, named by where it lives
Fn(name) == [t |-> "function", v |-> name]
\* the outcome of a throw; never stored as a value
Throw(msg) == [t |-> "throw", v |-> msg]
EmptyRec == [k \in {} |-> Undefined]
EmptyObj == Obj(EmptyRec)

IsThrow(x) == x.t = "throw"
\* F(a) and F(a, b) for the values of a and b: the operands are evaluated
\* once, before F, as the arguments of a call are in the program
Let1(a, F(_)) == CHOOSE r \in {F(x) : x \in {a}} : TRUE
Let2(a, b, F(_, _)) == CHOOSE r \in {F(x, y) : x \in {a}, y \in {b}} : TRUE
IsNullish(x) == x.t \in {"undefined", "null"}

\* a test that every value passes
Truthy_Always(x) == TRUE

\* JavaScript ToBoolean, the test behind !x, x ? a : b, l && r and Boolean(x)
Truthy(x) ==
  CASE x.t \in {"undefined", "null", "NaN", "negzero"} -> FALSE
    [] x.t = "boolean" -> x.v
    [] x.t = "number" -> x.v # 0
    [] x.t = "string" -> x.v # <<>>
    [] OTHER -> TRUE

\* the members every plain object inherits from Object.prototype
ObjectPrototypeMembers ==
  {"constructor", "__proto__", "hasOwnProperty", "isPrototypeOf", "propertyIsEnumerable",
   "toLocaleString", "toString", "valueOf"}

(***************************************************************************)
(* expr.ts: isPlainObject, safeGet                                         *)
(***************************************************************************)
isPlainObject(value) == value.t = "object"

\* obj[prop] on a plain object: the own entry, else the member inherited
\* from Object.prototype, else undefined
PlainGet(obj, prop) ==
  IF prop \in DOMAIN obj.v THEN obj.v[prop]
  ELSE IF prop \in ObjectPrototypeMembers THEN Fn("Object.prototype." \o prop)
  ELSE Undefined

\* Number(prop) where it is a non-negative integer, else -1
IndexOf(prop) ==
  CASE prop = "0" -> 0 [] prop = "1" -> 1 [] prop = "2" -> 2 [] OTHER -> -1

\* safeGet without its list of rejected names
safeGet_NoBlocklist(obj, prop) ==
  IF isPlainObject(obj) THEN PlainGet(obj, prop)
  ELSE IF obj.t = "array" THEN
    LET index == IndexOf(prop)
    IN IF index >= 0 /\ index < Len(obj.v) THEN obj.v[index + 1] ELSE Undefined
  ELSE Undefined

\* safeGet that reads a property of undefined or null the way obj[prop] does
safeGet_Native(obj, prop) ==
  IF prop \in {"__proto__", "prototype", "constructor"} THEN Undefined
  ELSE IF isPlainObject(obj) THEN PlainGet(obj, prop)
  ELSE IF obj.t = "array" THEN
    LET index == IndexOf(prop)
    IN IF index >= 0 /\ index < Len(obj.v) THEN obj.v[index + 1] ELSE Undefined
  ELSE IF obj.t \in {"undefined", "null"} THEN Throw(<<"Cannot read properties of ", obj.t>>)
  ELSE Undefined

safeGet(obj, prop) ==
  IF prop \in {"__proto__", "prototype", "constructor"} THEN Undefined
  ELSE IF isPlainObject(obj) THEN PlainGet(obj, prop)
  ELSE IF obj.t = "array" THEN
    LET index == IndexOf(prop)
    IN IF index >= 0 /\ index < Len(obj.v) THEN obj.v[index + 1] ELSE Undefined
  ELSE Undefined

(***************************************************************************)
(* String(value), and the string helpers of the catalog                    *)
(***************************************************************************)
DigitChar(d) == <<"0", "1", "2", "3", "4", "5", "6", "7", "8", "9">>[d + 1]

RECURSIVE NatToChars(_)
NatToChars(n) == IF n < 10 THEN <<DigitChar(n)>> ELSE NatToChars(n \div 10) \o <<DigitChar(n % 10)>>

IntToChars(n) == IF n < 0 THEN <<"-">> \o NatToChars(-n) ELSE NatToChars(n)

\* characters of the names that can end up in a stringified function
NameChars(name) ==
  CASE name = "upper" -> <<"u", "p", "p", "e", "r">>
    [] name = "lower" -> <<"l", "o", "w", "e", "r">>
    [] name = "trim" -> <<"t", "r", "i", "m">>
    [] name = "concat" -> <<"c", "o", "n", "c", "a", "t">>
    [] name = "coalesce" -> <<"c", "o", "a", "l", "e", "s", "c", "e">>
    [] OTHER -> <<"n", "a", "t", "i", "v", "e">>

\* the digits of r/q after the point, r < q: at most n of them (String gives
\* the shortest digits that read back as the same double, 16 here)
RECURSIVE FractionChars(_, _, _)
FractionChars(r, q, n) ==
  IF r = 0 \/ n = 0 THEN <<>>
  ELSE <<DigitChar((r * 10) \div q)>> \o FractionChars((r * 10) % q, q, n - 1)

RatioToChars(p, q) ==
  LET a == IF p < 0 THEN 0 - p ELSE p
  IN (IF p < 0 THEN <<"-">> ELSE <<>>) \o NatToChars(a \div q) \o <<".">> \o FractionChars(a % q, q, 16)

RECURSIVE ToStringJS(_)
RECURSIVE JoinComma(_)
\* Array.prototype.join(","): null and undefined elements give ""
JoinComma(s) ==
  IF s = <<>> THEN <<>>
  ELSE LET h == IF IsNullish(Head(s)) THEN <<>> ELSE ToStringJS(Head(s))
       IN IF Len(s) = 1 THEN h ELSE h \o <<",">> \o JoinComma(Tail(s))

ToStringJS(x) ==
  CASE x.t = "undefined" -> <<"u", "n", "d", "e", "f", "i", "n", "e", "d">>
    [] x.t = "null" -> <<"n", "u", "l", "l">>
    [] x.t = "NaN" -> <<"N", "a", "N">>
    [] x.t = "boolean" -> IF x.v THEN <<"t", "r", "u", "e">> ELSE <<"f", "a", "l", "s", "e">>
    [] x.t = "number" -> IntToChars(x.v)
    [] x.t = "negzero" -> <<"0">>
    [] x.t = "infinity" -> (IF x.v < 0 THEN <<"-">> ELSE <<>>) \o <<"I", "n", "f", "i", "n", "i", "t", "y">>
    [] x.t = "ratio" -> RatioToChars(x.v[1], x.v[2])
    [] x.t = "string" -> x.v
    [] x.t = "array" -> JoinComma(x.v)
    [] x.t = "function" -> <<"f", "n", " ">> \o NameChars(x.v)
    [] OTHER -> <<"[", "o", "b", "j", "e", "c", "t", " ", "O", "b", "j", "e", "c", "t", "]">>

UpperChar(c) ==
  CASE c = "a" -> "A" [] c = "b" -> "B" [] c = "c" -> "C" [] c = "d" -> "D" [] c = "e" -> "E"
    [] c = "f" -> "F" [] c = "j" -> "J" [] c = "l" -> "L" [] c = "n" -> "N" [] c = "o" -> "O"
    [] c = "r" -> "R" [] c = "s" -> "S" [] c = "t" -> "T" [] c = "u" -> "U" [] c = "x" -> "X"
    [] OTHER -> c

LowerChar(c) ==
  CASE c = "A" -> "a" [] c = "B" -> "b" [] c = "C" -> "c" [] c = "D" -> "d" [] c = "E" -> "e"
    [] c = "N" -> "n" [] c = "O" -> "o" [] c = "X" -> "x"
    [] OTHER -> c

toUpperCase(s) == [i \in 1..Len(s) |-> UpperChar(s[i])]
toLowerCase(s) == [i \in 1..Len(s) |-> LowerChar(s[i])]

RECURSIVE TrimStart(_)
TrimStart(s) == IF s # <<>> /\ Head(s) = " " THEN TrimStart(Tail(s)) ELSE s
RECURSIVE TrimEnd(_)
TrimEnd(s) == IF s # <<>> /\ s[Len(s)] = " " THEN TrimEnd(SubSeq(s, 1, Len(s) - 1)) ELSE s
\* String.prototype.trim
Trim(s) == TrimEnd(TrimStart(s))

\* the digit a character stands for, or -1
DigitOf(c) ==
  CASE c = "0" -> 0 [] c = "1" -> 1 [] c = "2" -> 2 [] c = "3" -> 3 [] c = "4" -> 4
    [] c = "5" -> 5 [] c = "6" -> 6 [] c = "7" -> 7 [] c = "8" -> 8 [] c = "9" -> 9
    [] OTHER -> -1

IsDigits(s) == s # <<>> /\ \A i \in 1..Len(s) : DigitOf(s[i]) >= 0

RECURSIVE DigitsValue(_)
DigitsValue(s) == IF s = <<>> THEN 0 ELSE 10 * DigitsValue(SubSeq(s, 1, Len(s) - 1)) + DigitOf(s[Len(s)])

\* Number(value) for a string of sign, digits and blanks (NaN otherwise; "" is 0)
NumberOfString(s) ==
  LET body == Trim(s)
  IN CASE body = <<>> -> Num(0)
       [] IsDigits(body) -> Num(DigitsValue(body))
       [] Head(body) \in {"-", "+"} /\ IsDigits(Tail(body)) ->
            (IF Head(body) = "+" THEN Num(DigitsValue(Tail(body)))
             ELSE IF DigitsValue(Tail(body)) = 0 THEN NegZero
             ELSE Num(0 - DigitsValue(Tail(body))))
       [] OTHER -> NaN

\* ToPrimitive(x) as l + r applies it: an array is joined, a plain object
\* gives "[object Object]" unless an own entry hides toString (an entry read
\* from data is no function: TypeError)
ToPrimitive(x) ==
  CASE x.t = "array" -> Str(JoinComma(x.v))
    [] x.t = "object" ->
         IF "toString" \in DOMAIN x.v THEN Throw(<<"Cannot convert object to primitive value">>)
         ELSE Str(ToStringJS(x))
    [] x.t \in {"exotic", "function"} -> Str(ToStringJS(x))
    [] OTHER -> x

\* Number(x) for a primitive x
ToNumberJS(x) ==
  CASE IsNumber(x) -> x
    [] x.t = "undefined" -> NaN
    [] x.t = "null" -> Num(0)
    [] x.t = "boolean" -> (IF x.v THEN Num(1) ELSE Num(0))
    [] x.t = "string" -> NumberOfString(x.v)

\* Number(value) in the place of toNumber
toNumber_Native(value) ==
  LET p == ToPrimitive(value)
  IN IF IsThrow(p) THEN NaN ELSE ToNumberJS(p)

\* expr.ts: toNumber
toNumber(value) ==
  IF IsNumber(value) THEN value
  ELSE IF value.t = "string" /\ Trim(value.v) # <<>> /\ NumberOfString(value.v) # NaN
       THEN NumberOfString(value.v)
  ELSE NaN

\* -n
Negate(n) ==
  CASE n = NaN -> NaN
    [] n = NegZero -> Num(0)
    [] n = Num(0) -> NegZero
    [] n.t = "infinity" -> Inf(0 - n.v)
    [] n.t = "ratio" -> Ratio(0 - n.v[1], n.v[2])
    [] OTHER -> Num(0 - n.v)

(***************************************************************************)
(* IEEE arithmetic on the numbers above                                    *)
(***************************************************************************)
Abs(i) == IF i < 0 THEN 0 - i ELSE i
Sgn(i) == IF i < 0 THEN -1 ELSE 1
RECURSIVE Gcd(_, _)
Gcd(a, b) == IF b = 0 THEN a ELSE Gcd(b, a % b)

IsZero(n) == n = Num(0) \/ n = NegZero
IsFinite(n) == n.t \in {"number", "negzero", "ratio"}
Zero(s) == IF s < 0 THEN NegZero ELSE Num(0)
\* numerator, denominator and sign of a finite number
Numer(n) == IF n.t = "ratio" THEN n.v[1] ELSE IF n.t = "number" THEN n.v ELSE 0
Denom(n) == IF n.t = "ratio" THEN n.v[2] ELSE 1
SignOf(n) == IF n.t = "negzero" THEN -1 ELSE IF n.t = "infinity" THEN n.v ELSE Sgn(Numer(n))
\* the number p/q, q > 0, p # 0
Quot(p, q) ==
  LET g == Gcd(Abs(p), q)
  IN IF q \div g = 1 THEN Num(p \div g) ELSE Ratio(Sgn(p) * (Abs(p) \div g), q \div g)

\* a + b
NumAdd(a, b) ==
  IF a = NaN \/ b = NaN THEN NaN
  ELSE IF a.t = "infinity" THEN (IF b.t = "infinity" /\ b.v # a.v THEN NaN ELSE a)
  ELSE IF b.t = "infinity" THEN b
  ELSE IF IsZero(a) /\ IsZero(b) THEN (IF a = NegZero /\ b = NegZero THEN NegZero ELSE Num(0))
  ELSE LET p == Numer(a) * Denom(b) + Numer(b) * Denom(a)
       IN IF p = 0 THEN Num(0) ELSE Quot(p, Denom(a) * Denom(b))

\* a - b
NumSub(a, b) == Let2(a, Negate(b), NumAdd)

\* a * b
NumMul(a, b) ==
  IF a = NaN \/ b = NaN THEN NaN
  ELSE IF (a.t = "infinity" /\ IsZero(b)) \/ (IsZero(a) /\ b.t = "infinity") THEN NaN
  ELSE IF a.t = "infinity" \/ b.t = "infinity" THEN Inf(SignOf(a) * SignOf(b))
  ELSE IF IsZero(a) \/ IsZero(b) THEN Zero(SignOf(a) * SignOf(b))
  ELSE Quot(Numer(a) * Numer(b), Denom(a) * Denom(b))

\* a / b
NumDiv(a, b) ==
  IF a = NaN \/ b = NaN THEN NaN
  ELSE IF (a.t = "infinity" /\ b.t = "infinity") \/ (IsZero(a) /\ IsZero(b)) THEN NaN
  ELSE IF a.t = "infinity" \/ IsZero(b) THEN Inf(SignOf(a) * SignOf(b))
  ELSE IF b.t = "infinity" \/ IsZero(a) THEN Zero(SignOf(a) * SignOf(b))
  ELSE Quot(SignOf(b) * Numer(a) * Denom(b), Denom(a) * Abs(Numer(b)))

\* a % b: the sign of the result is the sign of a
NumRem(a, b) ==
  IF a = NaN \/ b = NaN \/ a.t = "infinity" \/ IsZero(b) THEN NaN
  ELSE IF b.t = "infinity" \/ IsZero(a) THEN a
  ELSE LET x == Abs(Numer(a)) * Denom(b)
           y == Abs(Numer(b)) * Denom(a)
           r == x % y
       IN IF r = 0 THEN Zero(SignOf(a)) ELSE Quot(SignOf(a) * r, Denom(a) * Denom(b))

\* an addition that coerces both operands with toNumber
JsAdd_Numeric(l, r) == Let2(toNumber(l), toNumber(r), NumAdd)

\* l + r
JsAdd(l, r) ==
  Let2(ToPrimitive(l), ToPrimitive(r), LAMBDA lp, rp :
    IF IsThrow(lp) THEN lp
    ELSE IF IsThrow(rp) THEN rp
    ELSE IF lp.t = "string" \/ rp.t = "string" THEN Str(ToStringJS(lp) \o ToStringJS(rp))
    ELSE Let2(ToNumberJS(lp), ToNumberJS(rp), NumAdd))

\* Math.trunc(n) for a finite n
Trunc(n) ==
  IF n.t # "ratio" THEN n
  ELSE LET i == Abs(n.v[1]) \div n.v[2]
       IN IF i = 0 THEN Zero(Sgn(n.v[1])) ELSE Num(Sgn(n.v[1]) * i)

RECURSIVE Flatten(_)
Flatten(ss) == IF ss = <<>> THEN <<>> ELSE Head(ss) \o Flatten(Tail(ss))

(***************************************************************************)
(* The AST nodes jsep produces (the node contract evalAst consumes)        *)
(***************************************************************************)
Lit(v) == [type |-> "Literal", value |-> v]
Id(name) == [type |-> "Identifier", name |-> name]
\* obj.prop
Dot(object, prop) == [type |-> "MemberExpression", computed |-> FALSE, object |-> object, property |-> Id(prop)]
\* obj[property]
Bracket(object, property) == [type |-> "MemberExpression", computed |-> TRUE, object |-> object, property |-> property]
Call(callee, args) == [type |-> "CallExpression", arguments |-> args, callee |-> callee]
Unary(operator, argument) == [type |-> "UnaryExpression", argument |-> argument, operator |-> operator]
Binary(operator, left, right) == [type |-> "BinaryExpression", left |-> left, operator |-> operator, right |-> right]
Logical(operator, left, right) == [type |-> "LogicalExpression", left |-> left, operator |-> operator, right |-> right]
Cond(test, consequent, alternate) == [type |-> "ConditionalExpression", alternate |-> alternate, consequent |-> consequent, test |-> test]
ArrayE(elements) == [type |-> "ArrayExpression", elements |-> elements]
\* what jsep returns for several expressions in one source, e.g. "a b"
Compound(body) == [type |-> "Compound", body |-> body]

(***************************************************************************)
(* Dates.  A Date is DateV(day, ms): the day number counted from           *)
(* 1970-01-01 and the milliseconds into that UTC day.                      *)
(***************************************************************************)
DateV(day, ms) == [t |-> "date", v |-> <<day, ms>>]
\* new Date(NaN)
InvalidDate == [t |-> "invaliddate"]
MsPerDay == 86400000
Min(a, b) == IF a <= b THEN a ELSE b
\* a % b of JavaScript on integers: the sign of a
IntRem(a, b) == Sgn(a) * (Abs(a) % Abs(b))

\* the day number of year y, month m (1..12), day d
DaysFromCivil(y, m, d) ==
  Let1(IF m <= 2 THEN y - 1 ELSE y, LAMBDA yy :
  Let2(yy \div 400, (153 * ((m + 9) % 12) + 2) \div 5 + d - 1, LAMBDA era, doy :
  Let1(yy - era * 400, LAMBDA yoe :
    era * 146097 + yoe * 365 + yoe \div 4 - yoe \div 100 + doy - 719468)))

\* the year, month (1..12) and day of a day number
CivilFromDays(z) ==
  Let1((z + 719468) \div 146097, LAMBDA era :
  Let1(z + 719468 - era * 146097, LAMBDA doe :
  Let1((doe - doe \div 1460 + doe \div 36524 - doe \div 146096) \div 365, LAMBDA yoe :
  Let1(doe - (365 * yoe + yoe \div 4 - yoe \div 100), LAMBDA doy :
  Let1((5 * doy + 2) \div 153, LAMBDA mp :
  Let1(IF mp < 10 THEN mp + 3 ELSE mp - 9, LAMBDA m :
    [y |-> yoe + era * 400 + (IF m <= 2 THEN 1 ELSE 0), m |-> m,
     d |-> doy - (153 * mp + 2) \div 5 + 1]))))))

\* new Date(Date.UTC(y, m0, d, ...)) with the time of day ms: a year from 0
\* to 99 stands for 1900 + year, months and days outside their range carry
DateUTC(y, m0, d, ms) ==
  Let1(IF 0 <= y /\ y <= 99 THEN 1900 + y ELSE y, LAMBDA yr :
    DateV(DaysFromCivil(yr + m0 \div 12, (m0 % 12) + 1, 1) + d - 1, ms))

getUTCFullYear(date) == CivilFromDays(date.v[1]).y
getUTCMonth(date) == CivilFromDays(date.v[1]).m - 1
getUTCDate(date) == CivilFromDays(date.v[1]).d

\* /^\d{4}-\d{2}-\d{2}$/
IsIsoDate(s) ==
  /\ Len(s) = 10
  /\ s[5] = "-" /\ s[8] = "-"
  /\ IsDigits(SubSeq(s, 1, 4)) /\ IsDigits(SubSeq(s, 6, 7)) /\ IsDigits(SubSeq(s, 9, 10))

\* expr.ts: toDate.  new Date(s) of a string that is no YYYY-MM-DD is taken
\* to be invalid: the model has no other date strings.
toDate(value) ==
  CASE value.t = "date" -> value
    [] value.t = "invaliddate" -> Null
    [] IsNumber(value) ->
         IF ~IsFinite(value) THEN Null
         ELSE Let1(Numer(Trunc(value)), LAMBDA t : DateV(t \div MsPerDay, t % MsPerDay))
    [] value.t = "string" ->
         Let1(Trim(value.v), LAMBDA str :
           IF str = <<>> THEN Null
           ELSE IF IsIsoDate(str)
           THEN Let2(DigitsValue(SubSeq(str, 1, 4)), DigitsValue(SubSeq(str, 6, 7)) - 1,
                     LAMBDA yy, mm : DateUTC(yy, mm, DigitsValue(SubSeq(str, 9, 10)), 0))
           ELSE Null)
    [] OTHER -> Null

\* expr.ts: daysInUtcMonth, addMonthsUtc, addYearsUtc
daysInUtcMonth(year, month0) == getUTCDate(DateUTC(year, month0 + 1, 0, 0))

addMonthsUtc(date, months) ==
  Let2(getUTCFullYear(date), getUTCMonth(date), LAMBDA y, m :
  Let1(m + months, LAMBDA total :
  Let2(y + total \div 12, (IntRem(total, 12) + 12) % 12, LAMBDA nextY, nextM :
  Let2(getUTCDate(date), daysInUtcMonth(nextY, nextM), LAMBDA day, maxDay :
    DateUTC(nextY, nextM, Min(day, maxDay), date.v[2])))))

addYearsUtc(date, years) ==
  Let2(getUTCFullYear(date) + years, getUTCMonth(date), LAMBDA y, m :
  Let2(getUTCDate(date), daysInUtcMonth(y, m), LAMBDA day, maxDay :
    DateUTC(y, m, Min(day, maxDay), date.v[2])))

\* addMonths and addYears of the catalog
addMonths(date, months) ==
  Let2(toDate(date), toNumber(months), LAMBDA d, n :
    IF d = Null \/ ~IsFinite(n) THEN Null ELSE addMonthsUtc(d, Numer(Trunc(n))))

addYears(date, years) ==
  Let2(toDate(date), toNumber(years), LAMBDA d, n :
    IF d = Null \/ ~IsFinite(n) THEN Null ELSE addYearsUtc(d, Numer(Trunc(n))))

(***************************************************************************)
(* The clock of the host, in milliseconds: what new Date() reads           *)
(***************************************************************************)
VARIABLE clock
\* new Date()
now == DateV(clock \div MsPerDay, clock % MsPerDay)

(***************************************************************************)
(* expr.ts: defaultFunctions (the catalog)                                 *)
(***************************************************************************)
\* the own keys of the object defaultFunctions() returns
\* (the functions modelled so far)
defaultFunctions ==
  {"concat", "upper", "lower", "trim", "coalesce", "padStart", "padEnd", "addMonths", "addYears",
   "now"}

StrOrEmpty(a) == IF IsNullish(a) THEN <<>> ELSE ToStringJS(a)
Arg(args, i) == IF i <= Len(args) THEN args[i] ELSE Undefined

\* vals.find over the truthy values, what a chain of || would return
FirstNonNullish_Truthy(vals) ==
  LET found == {i \in 1..Len(vals) : Truthy(vals[i])}
  IN IF found = {} THEN Undefined ELSE vals[CHOOSE i \in found : \A j \in found : i <= j]

RECURSIVE FirstNonNullish(_)
FirstNonNullish(vals) ==
  IF vals = <<>> THEN Undefined
  ELSE IF ~IsNullish(Head(vals)) THEN Head(vals)
  ELSE FirstNonNullish(Tail(vals))

\* a ?? b
Nullish(a, b) == IF IsNullish(a) THEN b ELSE a
\* Number(x)
NumberJS(x) == Let1(ToPrimitive(x), LAMBDA p : IF IsThrow(p) THEN p ELSE ToNumberJS(p))
\* ToLength(n) of String.prototype.padStart, -1 standing for 2^53 - 1
ToLength(n) ==
  CASE n.t = "infinity" -> (IF n.v > 0 THEN -1 ELSE 0)
    [] n.t = "number" -> (IF n.v > 0 THEN n.v ELSE 0)
    [] n.t = "ratio" -> (IF n.v[1] > 0 THEN n.v[1] \div n.v[2] ELSE 0)
    [] OTHER -> 0
\* the first n characters of fill repeated without end
RECURSIVE Filler(_, _)
Filler(fill, n) ==
  IF n <= 0 THEN <<>>
  ELSE IF n <= Len(fill) THEN SubSeq(fill, 1, n)
  ELSE fill \o Filler(fill, n - Len(fill))
\* String.prototype.padStart and padEnd
StringPad(str, maxLength, fill, atStart) ==
  Let1(ToLength(maxLength), LAMBDA n :
    IF n # -1 /\ n <= Len(str) THEN Str(str)
    ELSE IF fill = <<>> THEN Str(str)
    ELSE IF n = -1 THEN Throw(<<"Invalid string length">>)
    ELSE IF atStart THEN Str(Filler(fill, n - Len(str)) \o str)
    ELSE Str(str \o Filler(fill, n - Len(str))))
\* padStart and padEnd of the catalog
Pad(args, atStart) ==
  Let1(NumberJS(Nullish(Arg(args, 2), Num(0))), LAMBDA len :
    IF IsThrow(len) THEN len
    ELSE Let2(ToStringJS(Nullish(Arg(args, 1), Str(<<>>))), ToStringJS(Nullish(Arg(args, 3), Str(<<" ">>))),
              LAMBDA str, fill : StringPad(str, len, fill, atStart)))

\* fn(...evaluatedArgs) for a function value fn
ApplyFunction(fn, args) ==
  CASE fn.v = "concat" -> Str(Flatten([i \in 1..Len(args) |-> StrOrEmpty(args[i])]))
    [] fn.v = "upper" -> Str(toUpperCase(StrOrEmpty(Arg(args, 1))))
    [] fn.v = "lower" -> Str(toLowerCase(StrOrEmpty(Arg(args, 1))))
    [] fn.v = "trim" -> Str(Trim(StrOrEmpty(Arg(args, 1))))
    [] fn.v = "coalesce" -> FirstNonNullish(args)
    [] fn.v = "padStart" -> Pad(args, TRUE)
    [] fn.v = "padEnd" -> Pad(args, FALSE)
    [] fn.v = "addMonths" -> addMonths(Arg(args, 1), Arg(args, 2))
    [] fn.v = "addYears" -> addYears(Arg(args, 1), Arg(args, 2))
    [] fn.v = "now" -> now

(***************************************************************************)
(* expr.ts: evalAst.  The result is [val, log]: val is the value returned  *)
(* or Throw(message); log lists, in order, every node evalAst was entered  *)
(* for ([op |-> "eval"]) and every function invoked ([op |-> "invoke"]).   *)
(***************************************************************************)
Entered(node) == [op |-> "eval", node |-> node]
Invoked(fn, args) == [op |-> "invoke", fn |-> fn, args |-> args]
Res(val, log) == [val |-> val, log |-> log]

\* the nodes evalAst was entered for, and the functions it invoked
EvaluatedNodes(log) == {log[i].node : i \in {j \in 1..Len(log) : log[j].op = "eval"}}
InvokedFns(log) == {log[i].fn : i \in {j \in 1..Len(log) : log[j].op = "invoke"}}

RECURSIVE evalAst(_, _, _)
RECURSIVE EvalList(_, _, _)

\* nodes.map((a) => evalAst(a, ctx, functions)): left to right, stopping at
\* the first throw.  val is Arr(values) or the Throw.
EvalList(nodes, ctx, functions) ==
  IF nodes = <<>> THEN Res(Arr(<<>>), <<>>)
  ELSE LET h == evalAst(Head(nodes), ctx, functions)
       IN IF IsThrow(h.val) THEN h
          ELSE LET r == EvalList(Tail(nodes), ctx, functions)
               IN IF IsThrow(r.val) THEN Res(r.val, h.log \o r.log)
                  ELSE Res(Arr(<<h.val>> \o r.val.v), h.log \o r.log)

evalAst(node, ctx, functions) ==
  LET here == <<Entered(node)>>
  IN
  CASE node.type = "Literal" -> Res(node.value, here)

    [] node.type = "Identifier" ->
         LET name == node.name
         IN Res(CASE name = "true" -> Bool(TRUE)
                  [] name = "false" -> Bool(FALSE)
                  [] name = "null" -> Null
                  [] name = "undefined" -> Undefined
                  [] name = "inputs" -> ctx.inputs
                  [] name = "constants" -> ctx.constants
                  [] name = "vars" -> ctx.vars
                  [] name = "row" -> ctx.row
                  [] OTHER -> IF name \in functions THEN Fn(name) ELSE Undefined,
                here)

    [] node.type = "UnaryExpression" ->
         LET arg == evalAst(node.argument, ctx, functions)
         IN IF IsThrow(arg.val) THEN Res(arg.val, here \o arg.log)
            ELSE IF node.operator = "!" THEN Res(Bool(~Truthy(arg.val)), here \o arg.log)
            ELSE IF node.operator = "+" THEN Res(toNumber(arg.val), here \o arg.log)
            ELSE IF node.operator = "-" THEN Res(Let1(toNumber(arg.val), Negate), here \o arg.log)
            ELSE Res(Throw(<<"Unsupported unary operator: ", node.operator>>), here \o arg.log)

    \* the operators == != === !== < <= > >= are not modelled: no node of the
    \* model carries one
    [] node.type = "BinaryExpression" ->
         LET l == evalAst(node.left, ctx, functions)
         IN IF IsThrow(l.val) THEN Res(l.val, here \o l.log)
            ELSE LET r == evalAst(node.right, ctx, functions)
                     log == here \o l.log \o r.log
                 IN IF IsThrow(r.val) THEN Res(r.val, log)
                    ELSE (CASE node.operator = "+" -> Res(JsAdd(l.val, r.val), log)
                           [] node.operator = "-" -> Res(Let2(toNumber(l.val), toNumber(r.val), NumSub), log)
                           [] node.operator = "*" -> Res(Let2(toNumber(l.val), toNumber(r.val), NumMul), log)
                           [] node.operator = "/" -> Res(Let2(toNumber(l.val), toNumber(r.val), NumDiv), log)
                           [] node.operator = "%" -> Res(Let2(toNumber(l.val), toNumber(r.val), NumRem), log)
                           [] node.operator \notin {"+", "-", "*", "/", "%", "==", "!=", "===", "!==",
                                                    "<", "<=", ">", ">="} ->
                                Res(Throw(<<"Unsupported binary operator: ", node.operator>>), log))

    [] node.type = "LogicalExpression" ->
         IF node.operator \notin {"&&", "||"}
         THEN Res(Throw(<<"Unsupported logical operator: ", node.operator>>), here)
         ELSE LET l == evalAst(node.left, ctx, functions)
              IN IF IsThrow(l.val) THEN Res(l.val, here \o l.log)
                 ELSE IF Truthy(l.val) = (node.operator = "&&")
                 THEN LET r == evalAst(node.right, ctx, functions)
                      IN Res(r.val, here \o l.log \o r.log)
                 ELSE Res(l.val, here \o l.log)

    [] node.type = "ConditionalExpression" ->
         LET c == evalAst(node.test, ctx, functions)
         IN IF IsThrow(c.val) THEN Res(c.val, here \o c.log)
            ELSE LET b == IF Truthy(c.val) THEN evalAst(node.consequent, ctx, functions)
                          ELSE evalAst(node.alternate, ctx, functions)
                 IN Res(b.val, here \o c.log \o b.log)

    [] node.type = "MemberExpression" ->
         IF node.computed THEN Res(Throw(<<"Computed member access is not allowed">>), here)
         ELSE LET objVal == evalAst(node.object, ctx, functions)
              IN IF IsThrow(objVal.val) THEN Res(objVal.val, here \o objVal.log)
                 ELSE Res(safeGet(objVal.val, node.property.name), here \o objVal.log)

    [] node.type = "CallExpression" ->
         IF node.callee.type # "Identifier"
         THEN Res(Throw(<<"Only direct function calls are allowed">>), here)
         ELSE LET fn == evalAst(node.callee, ctx, functions)
              IN IF fn.val.t # "function"
                 THEN Res(Throw(<<"Unknown function: ", node.callee.name>>), here \o fn.log)
                 ELSE LET evaluatedArgs == EvalList(node.arguments, ctx, functions)
                      IN IF IsThrow(evaluatedArgs.val)
                         THEN Res(evaluatedArgs.val, here \o fn.log \o evaluatedArgs.log)
                         ELSE Res(ApplyFunction(fn.val, evaluatedArgs.val.v),
                                  here \o fn.log \o evaluatedArgs.log
                                    \o <<Invoked(fn.val, evaluatedArgs.val.v)>>)

    [] node.type = "ArrayExpression" ->
         LET es == EvalList(node.elements, ctx, functions)
         IN Res(es.val, here \o es.log)

    [] OTHER -> Res(Throw(<<"Unsupported expression node type: ", node.type>>), here)

(***************************************************************************)
(* expr.ts: parseExpression, evalExpression.  The parser is jsep; the      *)
(* model knows its result on the sources below.                            *)
(***************************************************************************)
ParseOk(ast) == [ok |-> TRUE, ast |-> ast]
ParseFail(msg) == [ok |-> FALSE, msg |-> msg]

SrcOne == <<"1">>
SrcArray == <<"[", "1", "]">>
SrcNull == <<"null">>
SrcBad == <<"1", "+">>
SrcNope == <<"nope", "(", "1", ")">>
SrcVars(name) == <<"vars", ".", name>>
SrcOr(name) == <<"vars", ".", name, "||", "1">>
SrcCoalesce(a, b) == <<"coalesce", "(", "vars", ".", a, ",", "vars", ".", b, ")">>
SrcUpperName == <<"upper", "(", "inputs", ".", "name", ")">>
SrcInputsName == <<"inputs", ".", "name">>
SrcUpper == <<"upper">>
SrcMissing == <<"missing">>
SrcNow == <<"now", "(", ")">>

TextHi == <<"H", "i">>

HasBrace(src) == \E i \in 1..Len(src) : src[i] \in {"{", "}"}
HasBlank(src) == \E i \in 1..Len(src) : src[i] = " "

\* jsep on a source without blanks and braces (the character position that
\* ends jsep's messages is left out)
ParseToken(src) ==
  CASE src = SrcOne -> ParseOk(Lit(Num(1)))
    [] src = SrcArray -> ParseOk(ArrayE(<<Lit(Num(1))>>))
    [] src = SrcNull -> ParseOk(Lit(Null))
    [] src = SrcBad -> ParseFail(<<"Expected expression after +">>)
    [] src = SrcNope -> ParseOk(Call(Id("nope"), <<Lit(Num(1))>>))
    [] Len(src) = 3 /\ SubSeq(src, 1, 2) = <<"vars", ".">> -> ParseOk(Dot(Id("vars"), src[3]))
    [] Len(src) = 5 /\ SubSeq(src, 4, 5) = <<"||", "1">> ->
         ParseOk(Logical("||", Dot(Id("vars"), src[3]), Lit(Num(1))))
    [] Len(src) = 10 /\ src[1] = "coalesce" ->
         ParseOk(Call(Id("coalesce"), <<Dot(Id("vars"), src[5]), Dot(Id("vars"), src[9])>>))
    [] src = SrcUpperName -> ParseOk(Call(Id("upper"), <<Dot(Id("inputs"), "name")>>))
    [] src = SrcInputsName -> ParseOk(Dot(Id("inputs"), "name"))
    [] src = SrcNow -> ParseOk(Call(Id("now"), <<>>))
    [] src = TextHi -> ParseOk(Id("Hi"))
    [] Len(src) = 1 /\ src \notin {SrcOne, SrcNull} -> ParseOk(Id(src[1]))

\* jsep on a source without blanks: it stops at the first brace, unless
\* what stands before the brace already fails
ParsePart(src) ==
  IF ~HasBrace(src) THEN ParseToken(src)
  ELSE LET b == CHOOSE i \in 1..Len(src) : src[i] \in {"{", "}"} /\ \A j \in 1..(i - 1) : src[j] \notin {"{", "}"}
           pre == SubSeq(src, 1, b - 1)
       IN IF pre # <<>> /\ ~ParseToken(pre).ok THEN ParseToken(pre)
          ELSE ParseFail(<<"Unexpected ", src[b]>>)

\* the blank-separated parts of a source
RECURSIVE SplitBlanks(_)
SplitBlanks(src) ==
  LET s == TrimStart(src)
      n == IF HasBlank(s) THEN (CHOOSE i \in 1..Len(s) : s[i] = " " /\ \A j \in 1..(i - 1) : s[j] # " ") - 1
           ELSE Len(s)
  IN IF s = <<>> THEN <<>>
     ELSE <<SubSeq(s, 1, n)>> \o SplitBlanks(SubSeq(s, n + 1, Len(s)))

\* jsep(expr): one expression, or a Compound of the expressions found, or
\* the error of the first part that fails
parseExpression(src) ==
  LET parts == SplitBlanks(src)
      fails == {i \in 1..Len(parts) : ~ParsePart(parts[i]).ok}
  IN IF fails # {} THEN ParsePart(parts[CHOOSE i \in fails : \A j \in fails : i <= j])
     ELSE IF Len(parts) = 1 THEN ParsePart(parts[1])
     ELSE ParseOk(Compound([i \in 1..Len(parts) |-> ParsePart(parts[i]).ast]))

evalExpression(expr, ctx, functions) ==
  Let1(parseExpression(expr), LAMBDA ast :
    IF ast.ok THEN evalAst(ast.ast, ctx, functions) ELSE Res(Throw(ast.msg), <<>>))

(***************************************************************************)
(* The state of one evaluateVariables pass                                 *)
(***************************************************************************)
VARIABLES
  variableExprs, \* the definitions, as Object.entries lists them: <<[key, expr], ...>>
  ctxBase,       \* [inputs, constants]
  errors,        \* the errors list
  depsByVar,     \* key -> the dependency names, in insertion order
  vars,          \* the vars object under construction
  visiting,
  visited,
  stack,         \* the active evalVar calls: <<[key, next], ...>>, innermost last
  scanned,       \* definitions handled by the dependency scan
  started,       \* definitions the final for loop has called evalVar for
  pc,            \* "scan", "run", "done"
  evals          \* history: one entry per evaluation of a variable's expression

varsState == <<variableExprs, ctxBase, errors, depsByVar, vars, visiting, visited, stack, scanned, started, pc, evals>>

VarsIdle ==
  /\ variableExprs = <<>>
  /\ ctxBase = [inputs |-> EmptyObj, constants |-> EmptyObj]
  /\ errors = <<>>
  /\ depsByVar = EmptyRec
  /\ vars = EmptyObj
  /\ visiting = {}
  /\ visited = {}
  /\ stack = <<>>
  /\ scanned = 0
  /\ started = 0
  /\ pc = "idle"
  /\ evals = <<>>

(***************************************************************************)
(* One evalExpression call: the expression has been parsed to evalNode and *)
(* is evaluated against evalCtx with the default catalog.                  *)
(***************************************************************************)
VARIABLES
  evalNode,    \* the parsed expression
  evalCtx,     \* [inputs, constants, vars, row]
  evalResult,  \* what evalAst returned: [val, log]
  evalPc       \* "idle", "ready", "done"

evalState == <<evalNode, evalCtx, evalResult, evalPc>>

(***************************************************************************)
(* One renderTemplateString call.  A template is a sequence of atoms: the  *)
(* characters "{", "}" and " " and the tokens of expressions.              *)
(***************************************************************************)
VARIABLES
  tpl,        \* the template
  renderCtx,  \* the context the spans are evaluated against
  out,        \* the string built so far, the result when renderPc = "done"
  rest,       \* what String.replace has not scanned yet
  segs,       \* the template cut as replace cuts it, with what each cut became
  calls,      \* the number of evalExpression calls made
  renderPc    \* "idle", "ready", "replace", "done"

renderState == <<tpl, renderCtx, out, rest, segs, calls, renderPc>>

RenderIdle ==
  /\ tpl = <<>>
  /\ renderCtx = [inputs |-> EmptyObj, constants |-> EmptyObj, vars |-> EmptyObj, row |-> Undefined]
  /\ out = <<>>
  /\ rest = <<>>
  /\ segs = <<>>
  /\ calls = 0
  /\ renderPc = "idle"

(***************************************************************************)
(* DocumentPreview: the loop that decides, element by element, whether the *)
(* element is handed to its renderer.                                      *)
(***************************************************************************)
VARIABLES
  guards,      \* el.visibleIf of each element: Undefined or Str(source)
  previewCtx,  \* the context the guards are evaluated against
  shown,       \* for each element gone through: whether it is rendered
  previewPc    \* "idle", "map", "done"

previewState == <<guards, previewCtx, shown, previewPc>>

PreviewIdle ==
  /\ guards = <<>>
  /\ previewCtx = [inputs |-> EmptyObj, constants |-> EmptyObj, vars |-> EmptyObj, row |-> Undefined]
  /\ shown = <<>>
  /\ previewPc = "idle"

\* the state each operation leaves alone
\* what the earlier evaluateVariables calls on variableExprs and ctxBase
\* returned, with the evaluations they made: <<[vars, errors, evals], ...>>
VARIABLE returned

againState == <<clock, returned>>

AgainIdle ==
  /\ clock = 0
  /\ returned = <<>>

\* a second evaluateVariables call in progress while the first one is: the
\* locals of the call that is not taking steps, or NoPass
VARIABLE other
\* history: how many times a call was switched away from in the middle of
\* an evalVar, counted up to MaxCuts
VARIABLE cuts

NoPass == <<>>
passState == <<other, cuts>>
PassIdle == other = NoPass /\ cuts = 0

\* TemplateDesigner.  A template is a number: every template object the
\* designer or its host makes is a new one, and the designer compares
\* templates by identity only.
VARIABLES
  templateProp, \* the template prop, which the host sets in onTemplateChange
  templateRef,  \* templateRef.current
  past,         \* historyRef.current.past
  future,       \* historyRef.current.future
  dragging,     \* which of drag, lineEndpointDrag, resizeDrag is set, or "none"
  gestureRef,   \* [base, didMove] of dragMoveHistoryRef, lineEndpointHistoryRef, resizeHistoryRef
  pendingEl,    \* pendingElRef.current is set
  raf,          \* rafRef.current is set: an animation frame is requested
  made,         \* the number of template objects made so far (bounded)
  steps,        \* the number of undo and redo calls and gestures so far (bounded)
  lastOp        \* history: the last handler that ran, with the template prop
                \* and the past stack it found (a gesture keeps those of its
                \* pointer-down; a frame that follows another handler
                \* replaces its name)

designState == <<templateProp, templateRef, past, future, dragging, gestureRef, pendingEl, raf, made, steps, lastOp>>

NoTemplate == -1
Kinds == {"drag", "lineEndpointDrag", "resizeDrag"}
NoGesture == [k \in Kinds |-> [base |-> NoTemplate, didMove |-> FALSE]]
DesignIdle ==
  /\ templateProp = NoTemplate
  /\ templateRef = NoTemplate
  /\ past = <<>>
  /\ future = <<>>
  /\ dragging = "none"
  /\ gestureRef = NoGesture
  /\ pendingEl = FALSE
  /\ raf = FALSE
  /\ made = 0
  /\ steps = 0
  /\ lastOp = [op |-> "none", template |-> NoTemplate, past |-> <<>>]

notVars == <<evalState, renderState, previewState, againState, passState, designState>>
notEval == <<varsState, renderState, previewState, againState, passState, designState>>
notRender == <<varsState, evalState, previewState, againState, passState, designState>>
notPreview == <<varsState, evalState, renderState, againState, passState, designState>>
notDesign == <<varsState, evalState, renderState, previewState, againState, passState>>

BlockedNames == {"__proto__", "prototype", "constructor"}
\* the string literal "name" for the blocked names
NameLiteral(name) ==
  Lit(Str(CASE name = "__proto__" -> <<"_", "_", "p", "r", "o", "t", "o", "_", "_">>
            [] name = "prototype" -> <<"p", "r", "o", "t", "o", "t", "y", "p", "e">>
            [] name = "constructor" -> <<"c", "o", "n", "s", "t", "r", "u", "c", "t", "o", "r">>))

Ada == Str(<<"a", "d", "a">>)
\* the values row takes: absent, scalars, a sequence, mappings (one with own
\* keys that collide with inherited names), a Date, and a function (a row of
\* a table whose rows expression is [upper], render.tsx TableEl)
RowValues ==
  {Undefined, Null, Bool(FALSE), Num(1), Ada, Arr(<<Num(1), Ada>>),
   Obj([name |-> Ada]), Obj([name |-> Ada, constructor |-> Num(1), toString |-> Num(2)]),
   Exotic(EmptyRec), Fn("upper")}
\* inputs a host passes that no literal can write
HostInputs ==
  Obj([nan |-> NaN, inf |-> Inf(1), ninf |-> Inf(-1), nzero |-> NegZero, neg |-> Num(-4),
       arr |-> Arr(<<Num(1)>>), none |-> Arr(<<>>), obj |-> Obj([name |-> Ada]),
       middle |-> Num(0), due |-> DateV(19782, 45296789), bad |-> InvalidDate])
EvalContexts ==
  {[inputs |-> i, constants |-> Obj([tax |-> Num(8)]), vars |-> Obj([total |-> Num(1)]), row |-> r] :
     i \in {Obj([name |-> Ada]), Obj([name |-> Ada, constructor |-> Num(1)])}, r \in RowValues}
  \cup {[inputs |-> HostInputs, constants |-> EmptyObj, vars |-> EmptyObj, row |-> Undefined]}

BaseNodes ==
  {Id("row"), Id("inputs"), Id("constants"), Id("vars"), Id("missing"), Id("upper"),
   Id("toString"), Id("undefined"), Lit(Ada), Lit(Num(1)), Lit(Null)}
PropNames == BlockedNames \cup {"name", "missing", "toString", "hasOwnProperty", "valueOf", "length"}
DotNodes == {Dot(b, q) : b \in BaseNodes, q \in PropNames}
BracketNodes ==
  {Bracket(b, NameLiteral(q)) : b \in BaseNodes, q \in BlockedNames}
    \cup {Bracket(b, Id("name")) : b \in BaseNodes}
ArgNodes == {Lit(Ada), Call(Id("upper"), <<Lit(Ada)>>), Dot(Id("inputs"), "name")}
CalleeNodes ==
  {Id("upper"), Id("concat"), Id("nope"), Id("toString"), Id("hasOwnProperty"), Id("inputs"),
   Id("constants"), Id("vars"), Id("row"), Dot(Id("inputs"), "toString"), Dot(Id("row"), "name"),
   Call(Id("upper"), <<Lit(Ada)>>), Lit(Ada)}
CallNodes == {Call(c, <<a>>) : c \in CalleeNodes, a \in ArgNodes}
DeepNodes ==
  {Dot(Dot(b, q), "deeper") : b \in {Id("inputs"), Id("row"), Id("missing")}, q \in {"missing", "name"}}
BuiltNodes ==
  {Unary("!", Id("upper")), ArrayE(<<Id("upper")>>), Cond(Lit(Num(1)), Id("upper"), Lit(Null)),
   Logical("||", Id("missing"), Id("upper")), Logical("&&", Lit(Num(1)), Id("concat")),
   Call(Id("upper"), <<Id("upper")>>), Call(Id("coalesce"), <<Id("missing"), Id("upper")>>),
   Dot(ArrayE(<<Id("upper")>>), "length"), Unary("-", Lit(Ada)), Unary("~", Lit(Num(1)))}
\* the operands of the operators: literals, and reads of HostInputs
LiteralValues ==
  {Null, Bool(TRUE), Bool(FALSE), Num(0), Num(1), Num(3), Ratio(1, 2), Str(<<>>), Str(<<"5">>),
   Str(<<"3">>), Str(<<" ">>), Str(<<"a">>)}
OperandNodes ==
  {Lit(v) : v \in LiteralValues}
    \cup {Dot(Id("inputs"), k) : k \in {"nan", "inf", "ninf", "nzero", "neg", "arr", "none", "obj", "missing"}}
Nope == Call(Id("nope"), <<>>)
UnaryNodes ==
  {Unary(op, a) : op \in {"!", "+", "-"}, a \in OperandNodes \cup {Id("row")}}
    \cup {Unary("!", Binary("*", Lit(Str(<<"a">>)), Lit(Num(1))))}
BinaryNodes ==
  {Binary(op, a, b) : op \in {"+", "-", "*", "/", "%"}, a, b \in OperandNodes}
    \cup {Binary(op, Id("row"), Lit(Num(1))) : op \in {"+", "-", "|"}}
    \cup {Binary("-", Nope, Lit(Num(1))), Binary("/", Lit(Num(1)), Nope)}
ChoiceNodes ==
  {Logical(op, a, b) : op \in {"&&", "||"}, a \in OperandNodes, b \in {Nope, Lit(Ada)}}
    \cup {Cond(a, b, c) : a \in OperandNodes, b, c \in {Nope, Lit(Ada), Lit(Num(0))}}
    \cup {Logical("&&", Nope, Lit(Ada)), Cond(Nope, Lit(Ada), Lit(Num(0))), Logical("??", Lit(Null), Lit(Ada))}
\* calls of coalesce with no, one, two and three arguments
CoalesceArgs ==
  {Lit(Null), Id("missing"), Lit(Num(0)), Lit(Bool(FALSE)), Lit(Str(<<>>)), Lit(Ada),
   Dot(Id("inputs"), "middle")}
CoalesceNodes ==
  {Call(Id("coalesce"), args) :
     args \in {<<>>} \cup {<<a>> : a \in CoalesceArgs} \cup {<<a, b>> : a, b \in CoalesceArgs}
               \cup {<<Dot(Id("inputs"), "middle"), Lit(Null), Lit(Ada)>>,
                     <<Id("missing"), Lit(Null), Lit(Ada)>>, <<Lit(Null), Id("missing"), Lit(Null)>>,
                     <<Lit(Null), Nope>>}}
\* calls of padStart and padEnd with two and three arguments
PadValues == {Lit(Str(<<"7">>)), Lit(Ada), Lit(Null), Lit(Num(3))}
PadLengths ==
  {Lit(Num(0)), Lit(Num(3)), Lit(Num(5)), Lit(Str(<<"3">>)), Lit(Ratio(7, 2)), Dot(Id("inputs"), "inf"),
   Dot(Id("inputs"), "neg")}
PadChars == {Lit(Str(<<"0">>)), Lit(Str(<<"a", "b">>)), Lit(Str(<<>>)), Lit(Null), Lit(Num(0))}
PadNodes ==
  {Call(Id(f), args) :
     f \in {"padStart", "padEnd"},
     args \in {<<s, n>> : s \in PadValues, n \in PadLengths}
               \cup {<<s, n, c>> : s \in PadValues, n \in PadLengths, c \in PadChars}}
\* calls of addMonths and addYears
Iso(y, m, d) == Lit(Str(y \o <<"-">> \o m \o <<"-">> \o d))
DateArgs ==
  {Iso(<<"2", "0", "2", "4">>, <<"0", "1">>, <<"3", "1">>),
   Iso(<<"2", "0", "2", "4">>, <<"0", "2">>, <<"2", "9">>),
   Iso(<<"2", "0", "2", "3">>, <<"1", "2">>, <<"1", "5">>),
   Iso(<<"0", "1", "0", "0">>, <<"0", "3">>, <<"3", "1">>),
   Dot(Id("inputs"), "due"), Dot(Id("inputs"), "bad"), Lit(Str(<<>>)), Lit(Null), Lit(Ada)}
AmountArgs ==
  {Lit(Num(n)) : n \in {0, 1, 2, 11, 12, 13, 25}}
    \cup {Unary("-", Lit(Num(n))) : n \in {1, 3, 12, 13}}
    \cup {Lit(Ratio(3, 2)), Unary("-", Lit(Ratio(3, 2))), Lit(Str(<<"1">>)), Lit(Null),
          Dot(Id("inputs"), "inf")}
DateNodes ==
  {Call(Id(f), <<a, n>>) : f \in {"addMonths", "addYears"}, a \in DateArgs, n \in AmountArgs}
EvalNodes ==
  BaseNodes \cup DotNodes \cup BracketNodes \cup CallNodes \cup DeepNodes \cup BuiltNodes
    \cup UnaryNodes \cup BinaryNodes \cup ChoiceNodes \cup CoalesceNodes \cup PadNodes
    \cup DateNodes

EvalIdle ==
  /\ evalNode = Lit(Undefined)
  /\ evalCtx = [inputs |-> EmptyObj, constants |-> EmptyObj, vars |-> EmptyObj, row |-> Undefined]
  /\ evalResult = Res(Undefined, <<>>)
  /\ evalPc = "idle"

EvalInit ==
  /\ evalNode \in EvalNodes
  /\ evalCtx \in EvalContexts
  /\ evalResult = Res(Undefined, <<>>)
  /\ evalPc = "ready"

\* evalExpression(expr, ctx) after the parse
EvalExpression ==
  /\ evalPc = "ready"
  /\ evalResult' = evalAst(evalNode, evalCtx, defaultFunctions)
  /\ evalPc' = "done"
  /\ UNCHANGED <<evalNode, evalCtx>>
  /\ UNCHANGED notEval


(***************************************************************************)
(* vars.ts: collectVarDeps                                                 *)
(***************************************************************************)
RECURSIVE visit(_)
RECURSIVE VisitAll(_)
VisitAll(nodes) == IF nodes = <<>> THEN <<>> ELSE visit(Head(nodes)) \o VisitAll(Tail(nodes))

\* the names added to deps while visiting node, in the order of the adds;
\* the children are visited in the key order of jsep's node objects
visit(node) ==
  CASE node.type = "MemberExpression" ->
         (IF ~node.computed /\ node.object.type = "Identifier" /\ node.object.name = "vars"
              /\ node.property.type = "Identifier"
          THEN <<node.property.name>> ELSE <<>>)
         \o visit(node.object) \o visit(node.property)
    [] node.type = "CallExpression" -> VisitAll(node.arguments) \o visit(node.callee)
    [] node.type = "UnaryExpression" -> visit(node.argument)
    [] node.type = "LogicalExpression" -> visit(node.left) \o visit(node.right)
    [] node.type = "ConditionalExpression" ->
         visit(node.test) \o visit(node.consequent) \o visit(node.alternate)
    [] node.type = "ArrayExpression" -> VisitAll(node.elements)
    [] node.type = "Compound" -> VisitAll(node.body)
    [] OTHER -> <<>>

\* a Set keeps the first insertion of each element
RECURSIVE Dedupe(_)
Dedupe(s) ==
  IF s = <<>> THEN <<>>
  ELSE LET init == Dedupe(SubSeq(s, 1, Len(s) - 1))
           last == s[Len(s)]
       IN IF \E i \in 1..Len(init) : init[i] = last THEN init ELSE Append(init, last)

\* [ok, deps] or [ok, msg] when the parser throws
collectVarDeps(expr) ==
  Let1(parseExpression(expr),
       LAMBDA ast : IF ast.ok THEN [ok |-> TRUE, deps |-> Dedupe(visit(ast.ast))] ELSE ast)

(***************************************************************************)
(* vars.ts: evaluateVariables, one step of its loops per action            *)
(***************************************************************************)
\* the largest number of variable definitions of a template
MaxVars == 3
\* the variable names of the templates considered
VarNames == {"A", "B", "constructor", "__proto__"}
\* the expressions a variable may be defined by
VarSources ==
  {SrcOne, SrcArray, SrcBad, SrcNope, SrcVars("A"), SrcVars("B"), SrcVars("constructor"),
   SrcOr("A"), SrcOr("B")}

SampleInputs == Obj([name |-> Str(<<"a", "d", "a">>)])


Keys(defs) == {defs[i].key : i \in 1..Len(defs)}
ExprOf(defs, key) == defs[CHOOSE i \in 1..Len(defs) : defs[i].key = key].expr

\* all definition lists with distinct keys
DefinitionSets ==
  UNION {{d \in [1..n -> [key : VarNames, expr : VarSources]] :
            \A i, j \in 1..n : i # j => d[i].key # d[j].key} : n \in 1..MaxVars}

\* an assignment that leaves the object with the assigned key alone
SetProperty_Fresh(obj, key, val) == Obj([k \in {key} |-> val])

\* obj[key] = val on an object created by {}: the key __proto__ reaches the
\* setter of Object.prototype, which replaces the prototype when val is an
\* object or null and does nothing otherwise
SetProperty(obj, key, val) ==
  IF key = "__proto__"
  THEN IF val.t \in {"object", "array", "exotic", "function", "null"} THEN Exotic(obj.v) ELSE obj
  ELSE [obj EXCEPT !.v = [k \in DOMAIN obj.v \cup {key} |-> IF k = key THEN val ELSE obj.v[k]]]

VarsInit ==
  /\ variableExprs \in DefinitionSets
  /\ ctxBase = [inputs |-> SampleInputs, constants |-> EmptyObj]
  /\ errors = <<>>
  /\ depsByVar = EmptyRec
  /\ vars = EmptyObj
  /\ visiting = {}
  /\ visited = {}
  /\ stack = <<>>
  /\ scanned = 0
  /\ started = 0
  /\ pc = "scan"
  /\ evals = <<>>
  /\ EvalIdle
  /\ RenderIdle
  /\ PreviewIdle
  /\ AgainIdle
  /\ PassIdle
  /\ DesignIdle

VarError(key, msg) == <<"vars.", key, ": ">> \o msg
CycleError(key) == <<"Cycle detected in vars: ", key>>

\* one iteration of: for (const [key, expr] of Object.entries(variableExprs))
ScanVar ==
  /\ pc = "scan"
  /\ scanned < Len(variableExprs)
  /\ \E def \in {variableExprs[scanned + 1]} :
       \E r \in {collectVarDeps(def.expr)} :
         /\ depsByVar' = [k \in DOMAIN depsByVar \cup {def.key} |->
                            IF k = def.key THEN (IF r.ok THEN r.deps ELSE <<>>) ELSE depsByVar[k]]
         /\ errors' = IF r.ok THEN errors ELSE Append(errors, VarError(def.key, r.msg))
  /\ scanned' = scanned + 1
  /\ pc' = IF scanned + 1 = Len(variableExprs) THEN "run" ELSE "scan"
  /\ UNCHANGED <<variableExprs, ctxBase, vars, visiting, visited, stack, started, evals>>
  /\ UNCHANGED notVars

\* an evalVar that does not return at once for a variable already visited
EnterEvalVar_NoVisited(key) ==
  IF key \in visiting
  THEN /\ errors' = Append(errors, CycleError(key))
       /\ UNCHANGED <<visiting, stack>>
  ELSE /\ visiting' = visiting \cup {key}
       /\ stack' = Append(stack, [key |-> key, next |-> 1])
       /\ UNCHANGED errors

\* the first lines of evalVar(key): return at once, or mark key and start
\* its dependency loop
EnterEvalVar(key) ==
  IF key \in visited THEN UNCHANGED <<errors, visiting, stack>>
  ELSE IF key \in visiting
  THEN /\ errors' = Append(errors, CycleError(key))
       /\ UNCHANGED <<visiting, stack>>
  ELSE /\ visiting' = visiting \cup {key}
       /\ stack' = Append(stack, [key |-> key, next |-> 1])
       /\ UNCHANGED errors

\* one iteration of: for (const key of Object.keys(variableExprs)) evalVar(key)
LoopEvalVar ==
  /\ pc = "run"
  /\ stack = <<>>
  /\ started < Len(variableExprs)
  /\ EnterEvalVar(variableExprs[started + 1].key)
  /\ started' = started + 1
  /\ UNCHANGED <<variableExprs, ctxBase, depsByVar, vars, visited, scanned, pc, evals>>
  /\ UNCHANGED notVars

Top == stack[Len(stack)]

\* a dependency loop that waits for a dependency in progress instead of
\* reporting the cycle and going on
DepEvalVar_Wait ==
  /\ pc = "run"
  /\ stack # <<>>
  /\ Top.next <= Len(depsByVar[Top.key])
  /\ LET dep == depsByVar[Top.key][Top.next]
         bumped == [stack EXCEPT ![Len(stack)].next = @ + 1]
     IN IF dep \in Keys(variableExprs)
        THEN IF dep \in visited THEN stack' = bumped /\ UNCHANGED <<errors, visiting>>
             ELSE IF dep \in visiting
             THEN UNCHANGED <<errors, visiting, stack>>
             ELSE /\ visiting' = visiting \cup {dep}
                  /\ stack' = Append(bumped, [key |-> dep, next |-> 1])
                  /\ UNCHANGED errors
        ELSE stack' = bumped /\ UNCHANGED <<errors, visiting>>
  /\ UNCHANGED <<variableExprs, ctxBase, depsByVar, vars, visited, scanned, started, pc, evals>>
  /\ UNCHANGED notVars

\* one iteration of: for (const dep of depsByVar.get(key) ?? [])
DepEvalVar ==
  /\ pc = "run"
  /\ stack # <<>>
  /\ Top.next <= Len(depsByVar[Top.key])
  /\ LET dep == depsByVar[Top.key][Top.next]
         bumped == [stack EXCEPT ![Len(stack)].next = @ + 1]
     IN IF dep \in Keys(variableExprs)
        THEN IF dep \in visited THEN stack' = bumped /\ UNCHANGED <<errors, visiting>>
             ELSE IF dep \in visiting
             THEN /\ errors' = Append(errors, CycleError(dep))
                  /\ stack' = bumped
                  /\ UNCHANGED visiting
             ELSE /\ visiting' = visiting \cup {dep}
                  /\ stack' = Append(bumped, [key |-> dep, next |-> 1])
                  /\ UNCHANGED errors
        ELSE stack' = bumped /\ UNCHANGED <<errors, visiting>>
  /\ UNCHANGED <<variableExprs, ctxBase, depsByVar, vars, visited, scanned, started, pc, evals>>
  /\ UNCHANGED notVars

\* the rest of evalVar(key) once its dependency loop is over
FinishEvalVar ==
  /\ pc = "run"
  /\ stack # <<>>
  /\ Top.next > Len(depsByVar[Top.key])
  /\ \E key \in {Top.key},
        ctx \in {[inputs |-> ctxBase.inputs, constants |-> ctxBase.constants, vars |-> vars, row |-> Undefined]} :
      \E r \in {evalExpression(ExprOf(variableExprs, key), ctx, defaultFunctions)} :
        /\ IF IsThrow(r.val)
           THEN errors' = Append(errors, VarError(key, r.val.v)) /\ UNCHANGED vars
           ELSE vars' = SetProperty(vars, key, r.val) /\ UNCHANGED errors
        /\ evals' = Append(evals, [key |-> key, seen |-> vars, done |-> visited, result |-> r.val, at |-> clock])
        /\ visiting' = visiting \ {key}
        /\ visited' = visited \cup {key}
  /\ stack' = SubSeq(stack, 1, Len(stack) - 1)
  /\ UNCHANGED <<variableExprs, ctxBase, depsByVar, scanned, started, pc>>
  /\ UNCHANGED notVars

\* return { vars, errors }
ReturnVars ==
  /\ pc = "run"
  /\ stack = <<>>
  /\ started = Len(variableExprs)
  /\ pc' = "done"
  /\ UNCHANGED <<variableExprs, ctxBase, errors, depsByVar, vars, visiting, visited, stack, scanned, started, evals>>
  /\ UNCHANGED notVars

VarsNext == ScanVar \/ LoopEvalVar \/ DepEvalVar \/ FinishEvalVar \/ ReturnVars

allVars == <<varsState, evalState, renderState, previewState, againState, passState, designState>>

SpecVars == VarsInit /\ [][VarsNext]_allVars

\* the definition lists of the termination check: references to self, to
\* each other, around a longer cycle and to names that are not defined
RunNames == {"A", "B", "constructor"}
RunSources == {SrcOne, SrcBad, SrcVars("A"), SrcVars("B"), SrcVars("constructor")}
RunInit ==
  /\ VarsInit
  /\ \A i \in 1..Len(variableExprs) :
       variableExprs[i].key \in RunNames /\ variableExprs[i].expr \in RunSources

\* evaluateVariables is synchronous code: once called, it keeps taking its
\* next step until it returns; position is where the pass is, and every
\* step of the pass changes it
position == <<pc, scanned, started, stack>>
SpecVarsRun == RunInit /\ [][VarsNext]_allVars /\ WF_position(VarsNext)

(***************************************************************************)
(* evaluateVariables called again and again on the same definitions and    *)
(* the same base context, while the clock of the host runs                 *)
(***************************************************************************)
\* the largest number of definitions, the last reading of the clock and the
\* number of calls
MaxAgainVars == 2
MaxClock == 2
MaxCalls == 2
AgainNames == {"A", "B"}
AgainSources ==
  {SrcOne, SrcBad, SrcNope, SrcInputsName, SrcUpperName, SrcVars("A"), SrcVars("B"), SrcNow}
AgainDefinitions ==
  UNION {{d \in [1..n -> [key : AgainNames, expr : AgainSources]] :
            \A i, j \in 1..n : i # j => d[i].key # d[j].key} : n \in 1..MaxAgainVars}

AgainInit ==
  /\ variableExprs \in AgainDefinitions
  /\ ctxBase = [inputs |-> SampleInputs, constants |-> EmptyObj]
  /\ errors = <<>>
  /\ depsByVar = EmptyRec
  /\ vars = EmptyObj
  /\ visiting = {}
  /\ visited = {}
  /\ stack = <<>>
  /\ scanned = 0
  /\ started = 0
  /\ pc = "scan"
  /\ evals = <<>>
  /\ EvalIdle
  /\ RenderIdle
  /\ PreviewIdle
  /\ AgainIdle
  /\ PassIdle
  /\ DesignIdle

\* time passes, at any moment of a call and between the calls
ClockTick ==
  /\ pc # "idle"
  /\ clock < MaxClock
  /\ clock' = clock + 1
  /\ UNCHANGED <<varsState, evalState, renderState, previewState, returned, passState, designState>>

\* a next call that finds the visited set of the call before
CallAgain_KeepVisited ==
  /\ pc = "done"
  /\ Len(returned) + 1 < MaxCalls
  /\ returned' = Append(returned, [vars |-> vars, errors |-> errors, evals |-> evals])
  /\ errors' = <<>>
  /\ depsByVar' = EmptyRec
  /\ vars' = EmptyObj
  /\ visiting' = {}
  /\ stack' = <<>>
  /\ scanned' = 0
  /\ started' = 0
  /\ pc' = "scan"
  /\ evals' = <<>>
  /\ UNCHANGED <<variableExprs, ctxBase, visited, clock, evalState, renderState, previewState, passState, designState>>

\* the call has returned and evaluateVariables is called with the same
\* arguments: errors, depsByVar, vars, visiting and visited are new and empty
CallAgain ==
  /\ pc = "done"
  /\ Len(returned) + 1 < MaxCalls
  /\ returned' = Append(returned, [vars |-> vars, errors |-> errors, evals |-> evals])
  /\ errors' = <<>>
  /\ depsByVar' = EmptyRec
  /\ vars' = EmptyObj
  /\ visiting' = {}
  /\ visited' = {}
  /\ stack' = <<>>
  /\ scanned' = 0
  /\ started' = 0
  /\ pc' = "scan"
  /\ evals' = <<>>
  /\ UNCHANGED <<variableExprs, ctxBase, clock, evalState, renderState, previewState, passState, designState>>

AgainNext == VarsNext \/ ClockTick \/ CallAgain

SpecAgain == AgainInit /\ [][AgainNext]_allVars

(***************************************************************************)
(* vars.ts: two evaluateVariables calls in progress at once                *)
(***************************************************************************)
\* the largest number of definitions of each of the two calls
MaxPassVars == 2
MaxCuts == 2
PassNames == {"A", "B"}
PassSources == {SrcOne, SrcBad, SrcVars("A"), SrcVars("B")}
PassDefinitions ==
  UNION {{d \in [1..n -> [key : PassNames, expr : PassSources]] :
            \A i, j \in 1..n : i # j => d[i].key # d[j].key} : n \in 1..MaxPassVars}

\* the locals of a call that has just begun
NewPass(defs) ==
  [variableExprs |-> defs, errors |-> <<>>, depsByVar |-> EmptyRec, vars |-> EmptyObj,
   visiting |-> {}, visited |-> {}, stack |-> <<>>, scanned |-> 0, started |-> 0,
   pc |-> "scan", evals |-> <<>>]

\* the locals of the call that is taking steps
ThisPass ==
  [variableExprs |-> variableExprs, errors |-> errors, depsByVar |-> depsByVar, vars |-> vars,
   visiting |-> visiting, visited |-> visited, stack |-> stack, scanned |-> scanned,
   started |-> started, pc |-> pc, evals |-> evals]

PassesInit ==
  /\ variableExprs \in PassDefinitions
  /\ ctxBase = [inputs |-> SampleInputs, constants |-> EmptyObj]
  /\ errors = <<>>
  /\ depsByVar = EmptyRec
  /\ vars = EmptyObj
  /\ visiting = {}
  /\ visited = {}
  /\ stack = <<>>
  /\ scanned = 0
  /\ started = 0
  /\ pc = "scan"
  /\ evals = <<>>
  /\ other \in {NewPass(defs) : defs \in PassDefinitions}
  /\ cuts = 0
  /\ EvalIdle
  /\ RenderIdle
  /\ PreviewIdle
  /\ AgainIdle
  /\ DesignIdle

\* a switch between two calls whose marks are module state: visiting and
\* visited stay where they are
Switch_SharedMarks ==
  /\ other # NoPass
  /\ other' = ThisPass
  /\ cuts' = IF stack # <<>> /\ cuts < MaxCuts THEN cuts + 1 ELSE cuts
  /\ variableExprs' = other.variableExprs
  /\ errors' = other.errors
  /\ depsByVar' = other.depsByVar
  /\ vars' = other.vars
  /\ stack' = other.stack
  /\ scanned' = other.scanned
  /\ started' = other.started
  /\ pc' = other.pc
  /\ evals' = other.evals
  /\ UNCHANGED <<ctxBase, visiting, visited, evalState, renderState, previewState, againState, designState>>

\* the other call takes the next steps: errors, depsByVar, visiting, visited
\* and vars are locals of each call (expr.ts 690-704), so are its loops
Switch ==
  /\ other # NoPass
  /\ other' = ThisPass
  /\ cuts' = IF stack # <<>> /\ cuts < MaxCuts THEN cuts + 1 ELSE cuts
  /\ variableExprs' = other.variableExprs
  /\ errors' = other.errors
  /\ depsByVar' = other.depsByVar
  /\ vars' = other.vars
  /\ visiting' = other.visiting
  /\ visited' = other.visited
  /\ stack' = other.stack
  /\ scanned' = other.scanned
  /\ started' = other.started
  /\ pc' = other.pc
  /\ evals' = other.evals
  /\ UNCHANGED <<ctxBase, evalState, renderState, previewState, againState, designState>>

PassesNext == VarsNext \/ Switch

SpecPasses == PassesInit /\ [][PassesNext]_allVars

(***************************************************************************)
(* TemplateDesigner: the undo history, the edits and the pointer gestures   *)
(***************************************************************************)
\* hist.past.length > 100
HistoryLimit == 100
\* the largest number of templates made after the first state
MaxNew == 2
\* the largest number of undo and redo calls and pointer gestures
MaxSteps == 3
\* the numbers of edits made before the first state
StartEdits == {0, 2, 99, 100, 101}

\* historyRef.current after n edits of the template 0, each followed by the
\* effect: the past holds the last HistoryLimit templates before the n-th
PastAfter(n) ==
  [i \in 1..Min(n, HistoryLimit) |-> n - Min(n, HistoryLimit) + i - 1]

DesignInit ==
  /\ \E n \in StartEdits :
       /\ templateProp = n
       /\ templateRef = n
       /\ past = PastAfter(n)
       /\ lastOp = [op |-> "none", template |-> n, past |-> PastAfter(n)]
  /\ future = <<>>
  /\ dragging = "none"
  /\ gestureRef = NoGesture
  /\ pendingEl = FALSE
  /\ raf = FALSE
  /\ made = 0
  /\ steps = 0

\* a template object that did not exist before
NewTemplate == (CHOOSE n \in StartEdits : \A m \in StartEdits : m <= n) + made + 1

\* a pushHistory that drops nothing
pushHistory_NoLimit(hist, prev) == [past |-> Append(hist.past, prev), future |-> <<>>]

\* pushHistory(prev) on hist = [past, future]
pushHistory(hist, prev) ==
  [past |-> IF Len(hist.past) + 1 > HistoryLimit THEN Tail(Append(hist.past, prev))
            ELSE Append(hist.past, prev),
   future |-> <<>>]

\* React.useEffect(() => { templateRef.current = template }, [template])
RefreshRef ==
  /\ templateRef # templateProp
  /\ templateRef' = templateProp
  /\ UNCHANGED <<templateProp, past, future, dragging, gestureRef, pendingEl, raf, made, steps, lastOp>>
  /\ UNCHANGED notDesign

\* applyTemplateChange(next), next a new template: any edit of the panels,
\* the toolbar or the arrow keys
ApplyTemplateChange ==
  /\ made < MaxNew
  /\ \E next \in {NewTemplate} :
      \E hist \in {pushHistory([past |-> past, future |-> future], templateRef)} :
        /\ next # templateRef
        /\ past' = hist.past
        /\ future' = hist.future
        /\ templateProp' = next
  /\ made' = made + 1
  /\ lastOp' = [op |-> "edit", template |-> templateProp, past |-> past]
  /\ UNCHANGED <<templateRef, dragging, gestureRef, pendingEl, raf, steps>>
  /\ UNCHANGED notDesign

\* undo()
Undo ==
  /\ past # <<>>
  /\ steps < MaxSteps
  /\ steps' = steps + 1
  /\ dragging' = "none"
  /\ past' = SubSeq(past, 1, Len(past) - 1)
  /\ future' = Append(future, templateRef)
  /\ templateProp' = past[Len(past)]
  /\ lastOp' = [op |-> "undo", template |-> templateProp, past |-> past]
  /\ UNCHANGED <<templateRef, gestureRef, pendingEl, raf, made>>
  /\ UNCHANGED notDesign

\* redo()
Redo ==
  /\ future # <<>>
  /\ steps < MaxSteps
  /\ steps' = steps + 1
  /\ dragging' = "none"
  /\ future' = SubSeq(future, 1, Len(future) - 1)
  /\ past' = Append(past, templateRef)
  /\ templateProp' = future[Len(future)]
  /\ lastOp' = [op |-> "redo", template |-> templateProp, past |-> past]
  /\ UNCHANGED <<templateRef, gestureRef, pendingEl, raf, made>>
  /\ UNCHANGED notDesign

\* onElementPointerDown and the pointer-down handlers of the resize and
\* line handles: the left button on an element of the template
PointerDown ==
  /\ dragging = "none"
  /\ steps < MaxSteps
  /\ steps' = steps + 1
  /\ \E kind \in Kinds :
       /\ gestureRef' = [gestureRef EXCEPT ![kind] = [base |-> templateRef, didMove |-> FALSE]]
       /\ dragging' = kind
  /\ lastOp' = [op |-> "down", template |-> templateProp, past |-> past]
  /\ UNCHANGED <<templateProp, templateRef, past, future, pendingEl, raf, made>>
  /\ UNCHANGED notDesign

\* onMove: a pointermove event whose position differs from that of the
\* pointer-down (moved) or not
PointerMove ==
  /\ dragging \in Kinds
  /\ \E moved \in BOOLEAN :
       gestureRef' = [gestureRef EXCEPT ![dragging].didMove = @ \/ moved]
  /\ pendingEl' = TRUE
  /\ raf' = TRUE
  /\ UNCHANGED <<templateProp, templateRef, past, future, dragging, made, steps, lastOp>>
  /\ UNCHANGED notDesign

\* the requestAnimationFrame callback of onMove
AnimationFrame ==
  /\ raf
  /\ made < MaxNew
  /\ raf' = FALSE
  /\ IF pendingEl
     THEN templateProp' = NewTemplate /\ made' = made + 1
     ELSE UNCHANGED <<templateProp, made>>
  /\ lastOp' = IF lastOp.op \in {"down", "dragged", "clicked"} THEN lastOp
               ELSE [lastOp EXCEPT !.op = "frame"]
  /\ UNCHANGED <<templateRef, past, future, dragging, gestureRef, pendingEl, steps>>
  /\ UNCHANGED notDesign

\* onUp: pointerup or pointercancel
PointerUp ==
  /\ dragging \in Kinds
  /\ \E g \in {gestureRef[dragging]} :
       /\ IF g.base # NoTemplate /\ g.didMove
          THEN \E hist \in {pushHistory([past |-> past, future |-> future], g.base)} :
                 past' = hist.past /\ future' = hist.future
          ELSE UNCHANGED <<past, future>>
       /\ lastOp' = [op |-> IF lastOp.op = "down" THEN (IF g.didMove THEN "dragged" ELSE "clicked")
                          ELSE "up",
                   template |-> lastOp.template, past |-> lastOp.past]
  /\ gestureRef' = [gestureRef EXCEPT ![dragging] = [base |-> NoTemplate, didMove |-> FALSE]]
  /\ dragging' = "none"
  /\ UNCHANGED <<templateProp, templateRef, pendingEl, raf, made, steps>>
  /\ UNCHANGED notDesign

DesignSpecInit == DesignInit /\ VarsIdle /\ EvalIdle /\ RenderIdle /\ PreviewIdle /\ AgainIdle /\ PassIdle
DesignNext ==
  \/ RefreshRef \/ ApplyTemplateChange \/ Undo \/ Redo
  \/ PointerDown \/ PointerMove \/ AnimationFrame \/ PointerUp
SpecDesign == DesignSpecInit /\ [][DesignNext]_allVars

EvalSpecInit == EvalInit /\ VarsIdle /\ RenderIdle /\ PreviewIdle /\ AgainIdle /\ PassIdle /\ DesignIdle
EvalNext == EvalExpression

SpecEval == EvalSpecInit /\ [][EvalNext]_allVars

(***************************************************************************)
(* renderTemplateString                                                    *)
(***************************************************************************)
OpenAt(s, i) == i + 1 <= Len(s) /\ s[i] = "{" /\ s[i + 1] = "{"
CloseAt(s, i) == i + 1 <= Len(s) /\ s[i] = "}" /\ s[i + 1] = "}"
\* tpl.includes('{{')
Includes(s) == \E i \in 1..Len(s) : OpenAt(s, i)
\* where /\{\{([\s\S]*?)\}\}/ can match: a {{ with a }} somewhere after it
MatchStarts(s) == {i \in 1..Len(s) : OpenAt(s, i) /\ \E j \in (i + 2)..Len(s) : CloseAt(s, j)}
HasMatch(s) == MatchStarts(s) # {}
\* the leftmost match, and the shortest from there: [from, to] are the
\* positions of its first { and of its last }
FirstMatch(s) ==
  LET from == CHOOSE i \in MatchStarts(s) : \A k \in MatchStarts(s) : i <= k
      ends == {j \in (from + 2)..Len(s) : CloseAt(s, j)}
      close == CHOOSE j \in ends : \A k \in ends : j <= k
  IN [from |-> from, to |-> close + 1]
Marker(message) == <<"[expr error: ">> \o message \o <<"]">>

\* the replacer with the catch block returning the bare message
Replacer_BareMessage(inner, ctx, functions) ==
  Let1(Trim(inner), LAMBDA expr :
    IF expr = <<>> THEN [text |-> <<>>, called |-> FALSE, failed |-> FALSE]
    ELSE Let1(evalExpression(expr, ctx, functions), LAMBDA r :
           IF IsThrow(r.val) THEN [text |-> r.val.v, called |-> TRUE, failed |-> TRUE]
           ELSE [text |-> (IF IsNullish(r.val) THEN <<>> ELSE ToStringJS(r.val)),
                 called |-> TRUE, failed |-> FALSE]))

\* the replacer returning String(value) for every value
Replacer_NoNullCheck(inner, ctx, functions) ==
  Let1(Trim(inner), LAMBDA expr :
    IF expr = <<>> THEN [text |-> <<>>, called |-> FALSE, failed |-> FALSE]
    ELSE Let1(evalExpression(expr, ctx, functions), LAMBDA r :
           IF IsThrow(r.val) THEN [text |-> Marker(r.val.v), called |-> TRUE, failed |-> TRUE]
           ELSE [text |-> ToStringJS(r.val), called |-> TRUE, failed |-> FALSE]))

\* the function handed to String.replace, applied to the text between the
\* braces of one match: the text it returns, whether it called the
\* evaluator, whether the evaluator failed
Replacer(inner, ctx, functions) ==
  Let1(Trim(inner), LAMBDA expr :
    IF expr = <<>> THEN [text |-> <<>>, called |-> FALSE, failed |-> FALSE]
    ELSE Let1(evalExpression(expr, ctx, functions), LAMBDA r :
           IF IsThrow(r.val) THEN [text |-> Marker(r.val.v), called |-> TRUE, failed |-> TRUE]
           ELSE [text |-> (IF IsNullish(r.val) THEN <<>> ELSE ToStringJS(r.val)),
                 called |-> TRUE, failed |-> FALSE]))

\* s.replace(regex, replacer)
RECURSIVE ReplaceAll(_, _, _)
ReplaceAll(s, ctx, functions) ==
  IF ~HasMatch(s) THEN s
  ELSE LET m == FirstMatch(s)
       IN SubSeq(s, 1, m.from - 1)
            \o Replacer(SubSeq(s, m.from + 2, m.to - 2), ctx, functions).text
            \o ReplaceAll(SubSeq(s, m.to + 1, Len(s)), ctx, functions)

renderTemplateString(template, ctx, functions) ==
  IF ~Includes(template) THEN template ELSE ReplaceAll(template, ctx, functions)

MaxPieces == 3
SpanUpper == <<"{", "{", " ">> \o SrcUpperName \o <<" ", "}", "}">>
SpanNope == <<"{", "{">> \o SrcNope \o <<"}", "}">>
SpanBad == <<"{", "{">> \o SrcBad \o <<"}", "}">>
SpanBlank == <<"{", "{", " ", "}", "}">>
SpanNull == <<"{", "{">> \o SrcNull \o <<" ", "}", "}">>
SpanOne == <<"{", "{", " ">> \o SrcOne \o <<"}", "}">>
\* what templates are put together from: braces, a blank, a word, and
\* whole spans (one that evaluates, two that fail, an empty one, null, 1)
RenderPieces ==
  {<<"{", "{">>, <<"}", "}">>, <<"{">>, <<"}">>, <<" ">>, TextHi,
   SpanUpper, SpanNope, SpanBad, SpanBlank, SpanNull, SpanOne}
PieceSeqs ==
  {ps \in UNION {[1..n -> RenderPieces] : n \in 0..MaxPieces} :
     \A i \in 1..(Len(ps) - 1) : ~(ps[i] = TextHi /\ ps[i + 1] = TextHi)}
RenderTemplates == {Flatten(ps) : ps \in PieceSeqs}
\* an input whose text is itself a span
Braced == Str(<<"{", "{", "1", "}", "}">>)
RenderContexts ==
  {[inputs |-> i, constants |-> EmptyObj, vars |-> EmptyObj, row |-> Undefined] :
     i \in {Obj([name |-> Ada]), EmptyObj, Obj([name |-> Braced])}}

Text(src) == [kind |-> "text", src |-> src, text |-> src, called |-> FALSE, failed |-> FALSE]
Span(src, r) == [kind |-> "span", src |-> src, text |-> r.text, called |-> r.called, failed |-> r.failed]

RenderInit ==
  /\ tpl \in RenderTemplates
  /\ renderCtx \in RenderContexts
  /\ out = <<>>
  /\ rest = <<>>
  /\ segs = <<>>
  /\ calls = 0
  /\ renderPc = "ready"

\* line 5: a template without {{ is returned as it is
RenderLiteral ==
  /\ renderPc = "ready"
  /\ ~Includes(tpl)
  /\ out' = tpl
  /\ segs' = <<Text(tpl)>>
  /\ renderPc' = "done"
  /\ UNCHANGED <<tpl, renderCtx, rest, calls>>
  /\ UNCHANGED notRender

\* line 7: replace starts at the head of the template
RenderBegin ==
  /\ renderPc = "ready"
  /\ Includes(tpl)
  /\ rest' = tpl
  /\ renderPc' = "replace"
  /\ UNCHANGED <<tpl, renderCtx, out, segs, calls>>
  /\ UNCHANGED notRender

\* a replace that goes on scanning at the head of the text it has just put in
RenderSpan_Rescan ==
  /\ renderPc = "replace"
  /\ HasMatch(rest)
  /\ \E m \in {FirstMatch(rest)} :
      \E before \in {SubSeq(rest, 1, m.from - 1)},
         r \in {Replacer(SubSeq(rest, m.from + 2, m.to - 2), renderCtx, defaultFunctions)} :
        /\ out' = out \o before
        /\ segs' = segs \o <<Text(before), Span(SubSeq(rest, m.from, m.to), r)>>
        /\ calls' = calls + (IF r.called THEN 1 ELSE 0)
        /\ rest' = r.text \o SubSeq(rest, m.to + 1, Len(rest))
  /\ UNCHANGED <<tpl, renderCtx, renderPc>>
  /\ UNCHANGED notRender

\* lines 7-17: the next match is found and the replacer is run on it
RenderSpan ==
  /\ renderPc = "replace"
  /\ HasMatch(rest)
  /\ \E m \in {FirstMatch(rest)} :
      \E before \in {SubSeq(rest, 1, m.from - 1)},
         r \in {Replacer(SubSeq(rest, m.from + 2, m.to - 2), renderCtx, defaultFunctions)} :
        /\ out' = out \o before \o r.text
        /\ segs' = segs \o <<Text(before), Span(SubSeq(rest, m.from, m.to), r)>>
        /\ calls' = calls + (IF r.called THEN 1 ELSE 0)
        /\ rest' = SubSeq(rest, m.to + 1, Len(rest))
  /\ UNCHANGED <<tpl, renderCtx, renderPc>>
  /\ UNCHANGED notRender

\* line 7: no match is left, the remaining text is copied
RenderEnd ==
  /\ renderPc = "replace"
  /\ ~HasMatch(rest)
  /\ out' = out \o rest
  /\ segs' = segs \o <<Text(rest)>>
  /\ rest' = <<>>
  /\ renderPc' = "done"
  /\ UNCHANGED <<tpl, renderCtx, calls>>
  /\ UNCHANGED notRender

RenderSpecInit == RenderInit /\ VarsIdle /\ EvalIdle /\ PreviewIdle /\ AgainIdle /\ PassIdle /\ DesignIdle
RenderNext == RenderLiteral \/ RenderBegin \/ RenderSpan \/ RenderEnd
SpecRender == RenderSpecInit /\ [][RenderNext]_allVars

(***************************************************************************)
(* evaluate.ts: evalBoolean, and its use by DocumentPreview                *)
(***************************************************************************)
\* evalBoolean with a catch block that returns true
evalBoolean_FailVisible(expr, ctx, functions) ==
  IF ~Truthy(expr) THEN TRUE
  ELSE Let1(evalExpression(expr.v, ctx, functions), LAMBDA r :
         IF IsThrow(r.val) THEN TRUE ELSE Truthy(r.val))

\* expr is Undefined (no visibleIf) or Str(source)
evalBoolean(expr, ctx, functions) ==
  IF ~Truthy(expr) THEN TRUE
  ELSE Let1(evalExpression(expr.v, ctx, functions), LAMBDA r :
         IF IsThrow(r.val) THEN FALSE ELSE Truthy(r.val))

MaxElements == 2
Blank == <<" ">>
\* the guards of the elements considered: none, empty, blank, truthy,
\* falsy, failing at the parse, failing at the evaluation, reading inputs
GuardExprs ==
  {Undefined, Str(<<>>), Str(Blank), Str(SrcOne), Str(SrcNull), Str(SrcMissing), Str(SrcBad),
   Str(SrcNope), Str(SrcInputsName), Str(SrcUpper), Str(SrcArray)}
PreviewContexts ==
  {[inputs |-> i, constants |-> EmptyObj, vars |-> EmptyObj, row |-> Undefined] :
     i \in {Obj([name |-> Ada]), Obj([name |-> Str(<<>>)]), Obj([name |-> Num(0)]), EmptyObj}}

PreviewInit ==
  /\ guards \in UNION {[1..n -> GuardExprs] : n \in 1..MaxElements}
  /\ previewCtx \in PreviewContexts
  /\ shown = <<>>
  /\ previewPc = "map"

\* one call of the callback of elements.map: the element is dropped when
\* evalBoolean(el.visibleIf, ctx) is false
PreviewElement ==
  /\ previewPc = "map"
  /\ Len(shown) < Len(guards)
  /\ shown' = Append(shown, evalBoolean(guards[Len(shown) + 1], previewCtx, defaultFunctions))
  /\ UNCHANGED <<guards, previewCtx, previewPc>>
  /\ UNCHANGED notPreview

\* map returns
PreviewEnd ==
  /\ previewPc = "map"
  /\ Len(shown) = Len(guards)
  /\ previewPc' = "done"
  /\ UNCHANGED <<guards, previewCtx, shown>>
  /\ UNCHANGED notPreview

PreviewSpecInit == PreviewInit /\ VarsIdle /\ EvalIdle /\ RenderIdle /\ AgainIdle /\ PassIdle /\ DesignIdle
PreviewNext == PreviewElement \/ PreviewEnd
SpecPreview == PreviewSpecInit /\ [][PreviewNext]_allVars

(***************************************************************************)
(* Any one of the entry points: evaluateVariables, evalExpression,         *)
(* renderTemplateString or the map of DocumentPreview over evalBoolean     *)
(***************************************************************************)
AnyInit == VarsInit \/ EvalSpecInit \/ RenderSpecInit \/ PreviewSpecInit
AnyNext == VarsNext \/ EvalNext \/ RenderNext \/ PreviewNext
SpecAny == AnyInit /\ [][AnyNext]_allVars




(***************************************************************************)
(* Properties of evaluateVariables                                         *)
(***************************************************************************)
Defined == Keys(variableExprs)
\* the names variable key reads through vars.<name> (none when it does not parse)
DepsOf(key) ==
  LET r == collectVarDeps(ExprOf(variableExprs, key))
  IN IF r.ok THEN {r.deps[i] : i \in 1..Len(r.deps)} ELSE {}
CycleErrors == {i \in 1..Len(errors) : \E k \in Defined : errors[i] = CycleError(k)}
ErrorsOf(key) == {i \in 1..Len(errors) : Len(errors[i]) >= 3 /\ SubSeq(errors[i], 1, 3) = <<"vars.", key, ": ">>}
\* a, b read each other and nothing else is defined
MutualPair(a, b) == a # b /\ Defined = {a, b} /\ b \in DepsOf(a) /\ a \in DepsOf(b)
HasOwn(obj, key) == key \in DOMAIN obj.v
Succeeded == {evals[i].key : i \in {j \in 1..Len(evals) : ~IsThrow(evals[j].result)}}
Failed == {evals[i].key : i \in {j \in 1..Len(evals) : IsThrow(evals[j].result)}}

\* C1: when A reads vars.B and B reads vars.A, the pass ends with exactly one
\* cycle error and with neither A nor B a key of the returned vars.
C1_CycleLeavesBothUnset ==
  pc = "done" =>
    \A a, b \in Defined :
      MutualPair(a, b) =>
        /\ Cardinality(CycleErrors) = 1
        /\ ~HasOwn(vars, a)
        /\ ~HasOwn(vars, b)

\* C2: a variable's expression is evaluated only after every defined variable
\* it reads has been evaluated, and what it reads through vars.<name> is the
\* value that name has in the returned vars, for every acyclic definition set.
RECURSIVE ReachFrom(_, _)
ReachFrom(keys, n) ==
  IF n = 0 THEN keys
  ELSE ReachFrom(keys \cup UNION {DepsOf(k) \cap Defined : k \in keys}, n - 1)
Acyclic == \A k \in Defined : k \notin ReachFrom(DepsOf(k) \cap Defined, Cardinality(Defined))
C2_ForwardReference ==
  (pc = "done" /\ Acyclic) =>
    \A i \in 1..Len(evals) :
      \A d \in DepsOf(evals[i].key) \cap Defined :
        /\ d \in evals[i].done
        /\ d \in Succeeded => safeGet(evals[i].seen, d) = evals[CHOOSE j \in 1..Len(evals) : evals[j].key = d].result

\* C3: a variable whose expression fails to parse or to evaluate gets an error
\* tagged with its name and is not written; every other variable is still
\* evaluated; the returned vars holds exactly the variables that evaluated
\* successfully; a reader of the failed variable sees it as absent.
C3_FailureIsolated ==
  pc = "done" =>
    /\ \A k \in Failed : ErrorsOf(k) # {} /\ ~HasOwn(vars, k)
    /\ Succeeded \cup Failed = Defined
    /\ DOMAIN vars.v = Succeeded
    /\ \A i \in 1..Len(evals) :
         \A d \in DepsOf(evals[i].key) \cap Failed :
           d \in evals[i].done => safeGet(evals[i].seen, d) = Undefined

(***************************************************************************)
(* Properties of renderTemplateString                                      *)
(***************************************************************************)
RenderDone == renderPc = "done"
Sources(ss) == Flatten([i \in 1..Len(ss) |-> ss[i].src])
Texts(ss) == Flatten([i \in 1..Len(ss) |-> ss[i].text])
\* ss without its k-th element
Without(ss, k) == SubSeq(ss, 1, k - 1) \o SubSeq(ss, k + 1, Len(ss))
\* the text between the braces of a span
Inner(seg) == SubSeq(seg.src, 3, Len(seg.src) - 2)
FailedSpans == {k \in 1..Len(segs) : segs[k].failed}
\* no {{ with a }} after it
NoPair(s) == ~HasMatch(s)
IsString(s) == \A i \in 1..Len(s) : s[i] \in STRING
HiAda == <<"H", "i", " ", "A", "D", "A">>

\* C9: renderTemplateString ends with a string for every template and
\* context; a span whose parse or evaluation fails becomes
\* [expr error: <message>]; and the result without that marker is what the
\* template without that span renders to.
C9_FailingSpanIsMarked ==
  RenderDone =>
    /\ IsString(out)
    /\ Sources(segs) = tpl /\ Texts(segs) = out
    /\ \A k \in FailedSpans :
         LET r == evalExpression(Trim(Inner(segs[k])), renderCtx, defaultFunctions)
         IN /\ IsThrow(r.val)
            /\ segs[k].text = Marker(r.val.v)
            /\ renderTemplateString(Sources(Without(segs, k)), renderCtx, defaultFunctions)
                 = Texts(Without(segs, k))

\* a failing span stands between a word and a span that evaluates
C9_Witness ==
  /\ RenderDone
  /\ tpl = TextHi \o SpanNope \o SpanUpper
  /\ renderCtx.inputs = Obj([name |-> Ada])
  /\ out = TextHi \o Marker(<<"Unknown function: ", "nope">>) \o <<"A", "D", "A">>

\* C10: every span whose expression evaluates is replaced by String(value),
\* by the empty string when the value is undefined or null (or the span
\* holds no expression); text outside spans is copied; a template without
\* a {{ }} pair is returned unchanged with no call of the evaluator, so
\* rendering it again changes nothing; "Hi {{ upper(inputs.name) }}"
\* renders to "Hi ADA".
C10_SpansReplacedTextKept ==
  RenderDone =>
    /\ Sources(segs) = tpl /\ Texts(segs) = out
    /\ \A k \in 1..Len(segs) :
         /\ segs[k].kind = "text" => segs[k].text = segs[k].src /\ NoPair(segs[k].src)
         /\ (segs[k].kind = "span" /\ ~segs[k].failed) =>
              LET expr == Trim(Inner(segs[k]))
                  r == evalExpression(expr, renderCtx, defaultFunctions)
              IN /\ SubSeq(segs[k].src, 1, 2) = <<"{", "{">>
                 /\ SubSeq(segs[k].src, Len(segs[k].src) - 1, Len(segs[k].src)) = <<"}", "}">>
                 /\ segs[k].text = (IF expr = <<>> \/ IsNullish(r.val) THEN <<>> ELSE ToStringJS(r.val))
    /\ calls = Cardinality({k \in 1..Len(segs) : segs[k].kind = "span" /\ Trim(Inner(segs[k])) # <<>>})
    /\ NoPair(tpl) =>
         /\ out = tpl
         /\ calls = 0
         /\ renderTemplateString(out, renderCtx, defaultFunctions) = out
    /\ (tpl = TextHi \o <<" ">> \o SpanUpper /\ renderCtx.inputs = Obj([name |-> Ada])) => out = HiAda

\* a span whose value is null has been rendered next to text and a span
\* with a value
C10_Witness ==
  /\ RenderDone
  /\ tpl = TextHi \o SpanNull \o SpanOne
  /\ out = TextHi \o <<"1">>
  /\ calls = 2

(***************************************************************************)
(* Properties of evalExpression                                            *)
(***************************************************************************)
EvalDone == evalPc = "done"
IsDot(n) == n.type = "MemberExpression" /\ ~n.computed
IsBracket(n) == n.type = "MemberExpression" /\ n.computed
IsCall(n) == n.type = "CallExpression"
\* what the object of the member access evalNode evaluates to
ObjectValue == evalAst(evalNode.object, evalCtx, defaultFunctions).val
IsBlockedDot(n) == IsDot(n) /\ n.property.name \in BlockedNames
IsBlockedBracket(n) == IsBracket(n) /\ n.property \in {NameLiteral(q) : q \in BlockedNames}
ComputedError == Throw(<<"Computed member access is not allowed">>)
ReservedNames == {"inputs", "constants", "vars", "row", "true", "false", "null", "undefined"}
\* a call the evaluator is to reject: the callee is no bare identifier, or
\* it is an identifier that names no function of the catalog
IsRejectedCall(n) ==
  IsCall(n) /\ (n.callee.type # "Identifier" \/ n.callee.name \notin defaultFunctions)
HoldsFunction(x) ==
  x.t = "function" \/ (x.t = "array" /\ \E i \in 1..Len(x.v) : x.v[i].t = "function")

\* C4 as stated: member access with the name __proto__, prototype or
\* constructor, in dot style or in bracket style, evaluates to absent.
C4_BlockedAccessIsAbsent ==
  (EvalDone /\ (IsBlockedDot(evalNode) \/ IsBlockedBracket(evalNode))) => evalResult.val = Undefined

\* C4 as amended: in dot style the access evaluates to absent whatever the
\* object holds; in bracket style it is rejected with the computed-access
\* error before anything is evaluated; neither yields a prototype object or
\* a constructor function.
C4_BlockedAccessNeverLeaks ==
  EvalDone =>
    /\ IsBlockedDot(evalNode) => evalResult.val = Undefined
    /\ IsBlockedBracket(evalNode) =>
         evalResult.val = ComputedError /\ evalResult.log = <<Entered(evalNode)>>

\* an own key named constructor is read in dot style and absent comes back
C4_Witness ==
  /\ EvalDone
  /\ evalNode = Dot(Id("inputs"), "constructor")
  /\ "constructor" \in DOMAIN evalCtx.inputs.v
  /\ evalResult.val = Undefined

\* C5: obj.prop on a mapping is the mapping's own entry named prop, and absent
\* for every name that is no entry of it (inherited names included); on a
\* value that is neither a mapping nor a sequence it is absent.  (The three
\* rejected names are left to C4.)
C5_OwnEntriesOnly ==
  (EvalDone /\ IsDot(evalNode) /\ evalNode.property.name \notin BlockedNames) =>
    LET o == ObjectValue
        q == evalNode.property.name
    IN /\ o.t = "object" => evalResult.val = (IF q \in DOMAIN o.v THEN o.v[q] ELSE Undefined)
       /\ o.t \notin {"object", "array", "throw"} => evalResult.val = Undefined

\* C6: no expression evaluates to a function.
C6_NoFunctionValue == EvalDone => ~HoldsFunction(evalResult.val)

\* C7: bracket access, a call whose callee is no bare identifier and a call
\* of an identifier that names no catalog function (inherited and reserved
\* names included) fail with an error; in the call cases no argument is
\* evaluated and no function is invoked.
C7_RejectedForms ==
  EvalDone =>
    /\ IsBracket(evalNode) => IsThrow(evalResult.val)
    /\ IsRejectedCall(evalNode) =>
         /\ IsThrow(evalResult.val)
         /\ InvokedFns(evalResult.log) = {}
         /\ EvaluatedNodes(evalResult.log) \subseteq {evalNode, evalNode.callee}

\* C8: an identifier that is neither reserved nor a catalog function is
\* absent; row is absent when the context has none; member access on an
\* absent value is absent, so inputs.missing.deeper does not raise.
C8_MissingIsAbsent ==
  EvalDone =>
    /\ (evalNode.type = "Identifier" /\ evalNode.name \notin ReservedNames \cup defaultFunctions)
         => evalResult.val = Undefined
    /\ (evalNode = Id("row") /\ evalCtx.row = Undefined) => evalResult.val = Undefined
    /\ (IsDot(evalNode) /\ ObjectValue = Undefined) => evalResult.val = Undefined
    /\ evalNode \in DeepNodes => ~IsThrow(evalResult.val)
    /\ evalNode = Dot(Dot(Id("inputs"), "missing"), "deeper") => evalResult.val = Undefined

\* inputs.missing.deeper has been evaluated
C8_Witness ==
  /\ EvalDone
  /\ evalNode = Dot(Dot(Id("inputs"), "missing"), "deeper")
  /\ "missing" \notin DOMAIN evalCtx.inputs.v
  /\ evalResult.val = Undefined

(***************************************************************************)
(* Properties of evalBoolean                                               *)
(***************************************************************************)
\* the values JavaScript takes for false in a test
FalsyValues == {Undefined, Null, Bool(FALSE), Num(0), NegZero, NaN, Str(<<>>)}
\* what the guard of element i evaluates to
GuardResult(i) == evalExpression(guards[i].v, previewCtx, defaultFunctions)
HasGuard(i) == guards[i] # Undefined /\ guards[i].v # <<>>

Sub(n) == evalAst(n, evalCtx, defaultFunctions)
IsLogical(n) == n.type = "LogicalExpression" /\ n.operator \in {"&&", "||"}
IsCond(n) == n.type = "ConditionalExpression"
\* the left operand decides the result of the logical node n
ShortCircuits(n) ==
  \/ n.operator = "&&" /\ Sub(n.left).val \in FalsyValues
  \/ n.operator = "||" /\ Sub(n.left).val \notin FalsyValues

C13_FalsyPartition ==
  (EvalDone /\ evalNode.type = "UnaryExpression" /\ evalNode.operator = "!"
     /\ ~IsThrow(Sub(evalNode.argument).val)) =>
    evalResult.val = Bool(Sub(evalNode.argument).val \in {Undefined, Null, Bool(FALSE), Num(0), NegZero, Str(<<>>)})

IsBinary(n, ops) == n.type = "BinaryExpression" /\ n.operator \in ops
OperandsOk(n) == ~IsThrow(Sub(n.left).val) /\ ~IsThrow(Sub(n.right).val)
\* the numeric coercion rule, written out for the operand values of the
\* model: numbers pass, "5" and "3" parse, everything else is not-a-number
Coerced(x) ==
  CASE IsNumber(x) -> x
    [] x = Str(<<"5">>) -> Num(5)
    [] x = Str(<<"3">>) -> Num(3)
    [] OTHER -> NaN
Five == Lit(Str(<<"5">>))
Three == Lit(Str(<<"3">>))

\* C14: l + r is the concatenation of the operands' strings when one operand
\* is a string and one is not numeric after coercion, and in every other
\* case the sum of the coerced operands (null, absent, booleans and objects
\* counting as not-a-number).
C14_PlusByCoercion ==
  (EvalDone /\ IsBinary(evalNode, {"+"}) /\ OperandsOk(evalNode)) =>
    LET l == Sub(evalNode.left).val
        r == Sub(evalNode.right).val
    IN IF (l.t = "string" \/ r.t = "string") /\ (Coerced(l) = NaN \/ Coerced(r) = NaN)
       THEN evalResult.val = Str(ToStringJS(l) \o ToStringJS(r))
       ELSE evalResult.val = NumAdd(Coerced(l), Coerced(r))

\* C15: "5" + "3" is the string "53" and "5" - "3" is the number 2; + with a
\* string operand concatenates the operands' strings, - returns a number
\* whatever the operands are.
C15_PlusConcatenatesMinusSubtracts ==
  (EvalDone /\ IsBinary(evalNode, {"+", "-"}) /\ OperandsOk(evalNode)) =>
    LET l == Sub(evalNode.left).val
        r == Sub(evalNode.right).val
    IN /\ evalNode = Binary("+", Five, Three) => evalResult.val = Str(<<"5", "3">>)
       /\ evalNode = Binary("-", Five, Three) => evalResult.val = Num(2)
       /\ (evalNode.operator = "+" /\ (l.t = "string" \/ r.t = "string")) =>
            evalResult.val = Str(ToStringJS(l) \o ToStringJS(r))
       /\ evalNode.operator = "-" =>
            IsNumber(evalResult.val) /\ evalResult.val = NumSub(Coerced(l), Coerced(r))

\* "5" + "3" has been evaluated
C15_Witness ==
  /\ EvalDone
  /\ evalNode = Binary("+", Five, Three)
  /\ evalResult.val = Str(<<"5", "3">>)

\* C16: - * / % and unary + and - return a number for all operands: the
\* operation on the coerced operands; a zero divisor gives an infinity or
\* not-a-number for /, and not-a-number for %.
C16_ArithmeticIsTotal ==
  EvalDone =>
    /\ (IsBinary(evalNode, {"-", "*", "/", "%"}) /\ OperandsOk(evalNode)) =>
         LET l == Coerced(Sub(evalNode.left).val)
             r == Coerced(Sub(evalNode.right).val)
         IN /\ IsNumber(evalResult.val)
            /\ evalResult.val = (CASE evalNode.operator = "-" -> NumSub(l, r)
                                   [] evalNode.operator = "*" -> NumMul(l, r)
                                   [] evalNode.operator = "/" -> NumDiv(l, r)
                                   [] evalNode.operator = "%" -> NumRem(l, r))
            /\ (evalNode.operator = "/" /\ IsZero(r)) => evalResult.val \in {Inf(1), Inf(-1), NaN}
            /\ (evalNode.operator = "%" /\ IsZero(r)) => evalResult.val = NaN
    /\ evalNode = Binary("/", Lit(Num(1)), Lit(Num(0))) => evalResult.val = Inf(1)
    /\ evalNode = Binary("/", Dot(Id("inputs"), "neg"), Lit(Num(0))) =>
         evalResult.val = (IF evalCtx.inputs = HostInputs THEN Inf(-1) ELSE NaN)
    /\ evalNode = Binary("/", Lit(Num(0)), Lit(Num(0))) => evalResult.val = NaN
    /\ evalNode = Binary("/", Lit(Num(1)), Lit(Num(3))) => evalResult.val = Ratio(1, 3)
    /\ evalNode = Binary("%", Lit(Num(3)), Lit(Num(0))) => evalResult.val = NaN
    /\ evalNode = Binary("*", Lit(Null), Lit(Num(1))) => evalResult.val = NaN
    /\ (evalNode.type = "UnaryExpression" /\ evalNode.operator \in {"+", "-"}
          /\ ~IsThrow(Sub(evalNode.argument).val)) =>
         /\ IsNumber(evalResult.val)
         /\ evalResult.val = (IF evalNode.operator = "+" THEN Coerced(Sub(evalNode.argument).val)
                              ELSE Negate(Coerced(Sub(evalNode.argument).val)))

\* a division by zero has been evaluated and gave an infinity
C16_Witness ==
  /\ EvalDone
  /\ evalNode = Binary("/", Dot(Id("inputs"), "neg"), Lit(Num(0)))
  /\ evalCtx.inputs = HostInputs
  /\ evalResult.val = Inf(-1)

(***************************************************************************)
(* Properties of the catalog                                               *)
(***************************************************************************)
IsCallOf(n, names) ==
  n.type = "CallExpression" /\ n.callee.type = "Identifier" /\ n.callee.name \in names
\* the values of the arguments of the call n, none of which fails
ArgValues(n) == [i \in 1..Len(n.arguments) |-> Sub(n.arguments[i]).val]
ArgsOk(n) == \A i \in 1..Len(n.arguments) : ~IsThrow(Sub(n.arguments[i]).val)

\* C17: coalesce returns its first argument that is neither absent nor null,
\* be it 0, false or the empty string, and the absent value when there is no
\* such argument or no argument at all.
C17_CoalesceFirstPresent ==
  (EvalDone /\ IsCallOf(evalNode, {"coalesce"}) /\ ArgsOk(evalNode)) =>
    LET vals == ArgValues(evalNode)
        present == {i \in 1..Len(vals) : vals[i] \notin {Undefined, Null}}
    IN IF present = {} THEN evalResult.val = Undefined
       ELSE \E i \in present :
              /\ \A j \in present : i <= j
              /\ evalResult.val = vals[i]

\* coalesce(inputs.middle, "ada") has been evaluated with a middle of 0, and
\* returned the 0
C17_Witness ==
  /\ EvalDone
  /\ evalNode = Call(Id("coalesce"), <<Dot(Id("inputs"), "middle"), Lit(Ada)>>)
  /\ evalCtx.inputs = HostInputs
  /\ evalResult.val = Num(0)

\* the value, the length and the padChar that a call n of padStart or padEnd
\* works with
PadValueOf(n) == ToStringJS(Nullish(Arg(ArgValues(n), 1), Str(<<>>)))
PadLengthOf(n) == NumberJS(Nullish(Arg(ArgValues(n), 2), Num(0)))
PadCharOf(n) == ToStringJS(Nullish(Arg(ArgValues(n), 3), Str(<<" ">>)))
Copies(c, k) == [i \in 1..k |-> c]

\* C18: padStart and padEnd return the stringified value when it has length
\* characters already, and otherwise the value with copies of the first
\* character of padChar (a space when padChar is omitted) before it, or after
\* it, up to length characters.
C18_PadsWithFirstCharacter ==
  (EvalDone /\ IsCallOf(evalNode, {"padStart", "padEnd"}) /\ ArgsOk(evalNode)
     /\ IsFinite(PadLengthOf(evalNode)) /\ PadCharOf(evalNode) # <<>>) =>
    LET str == PadValueOf(evalNode)
        k == ToLength(PadLengthOf(evalNode)) - Len(str)
        padding == Copies(PadCharOf(evalNode)[1], k)
    IN /\ ~IsThrow(evalResult.val)
       /\ Len(evalResult.val.v) >= ToLength(PadLengthOf(evalNode))
       /\ evalResult.val = (IF k <= 0 THEN Str(str)
                            ELSE IF evalNode.callee.name = "padStart" THEN Str(padding \o str)
                            ELSE Str(str \o padding))

\* the days of month m (1..12) of year y in the calendar
IsLeap(y) == y % 4 = 0 /\ (y % 100 # 0 \/ y % 400 = 0)
MonthLength(y, m) ==
  IF m = 2 THEN (IF IsLeap(y) THEN 29 ELSE 28)
  ELSE IF m \in {4, 6, 9, 11} THEN 30 ELSE 31
\* the year and month (1..12) that lie k months after month m of year y
MonthsLater(y, m, k) == [y |-> y + (m - 1 + k) \div 12, m |-> ((m - 1 + k) % 12) + 1]

\* C19: addMonths and addYears of a date and a finite amount n return a date
\* with the same UTC time of day, in the month that lies trunc(n) months, or
\* trunc(n) years, after the date's month, on the date's day of the month or
\* on the last day of that month if the month is shorter.  Jan 31 plus one
\* month is Feb 29 in 2024, and Feb 29 2024 plus one year is Feb 28 2025.
C19_MonthAndYearArithmetic ==
  (EvalDone /\ IsCallOf(evalNode, {"addMonths", "addYears"}) /\ ArgsOk(evalNode)
     /\ toDate(ArgValues(evalNode)[1]) # Null /\ IsFinite(toNumber(ArgValues(evalNode)[2]))) =>
    LET date == toDate(ArgValues(evalNode)[1])
        n == Numer(Trunc(toNumber(ArgValues(evalNode)[2])))
        from == CivilFromDays(date.v[1])
        to == IF evalNode.callee.name = "addMonths" THEN MonthsLater(from.y, from.m, n)
              ELSE [y |-> from.y + n, m |-> from.m]
    IN /\ evalResult.val.t = "date"
       /\ evalResult.val.v[2] = date.v[2]
       /\ CivilFromDays(evalResult.val.v[1]) =
            [y |-> to.y, m |-> to.m, d |-> Min(from.d, MonthLength(to.y, to.m))]

(***************************************************************************)
(* Determinism                                                             *)
(***************************************************************************)
\* the source calls now()
CallsNow(src) == \E i \in 1..Len(src) : src[i] = "now"
\* the result of the call that has just returned
Returning == [vars |-> vars, errors |-> errors, evals |-> evals]
\* the same evaluations in the same order, whenever they were made
SameEvals(e, f) ==
  /\ Len(e) = Len(f)
  /\ \A i \in 1..Len(e) : e[i].key = f[i].key /\ e[i].seen = f[i].seen /\ e[i].result = f[i].result

C21_ContextUnchanged ==
  [][/\ evalCtx' = evalCtx /\ evalNode' = evalNode
     /\ renderCtx' = renderCtx /\ tpl' = tpl
     /\ previewCtx' = previewCtx /\ guards' = guards
     /\ ctxBase' = ctxBase /\ variableExprs' = variableExprs
     /\ vars' # vars =>
          /\ Len(evals') = Len(evals) + 1
          /\ ~IsThrow(evals'[Len(evals')].result)
          /\ DOMAIN vars'.v \subseteq DOMAIN vars.v \cup {evals'[Len(evals')].key}
          /\ \A k \in DOMAIN vars.v \ {evals'[Len(evals')].key} :
               k \in DOMAIN vars'.v /\ vars'.v[k] = vars.v[k]]_allVars

\* a pass over A = vars.B, B = 1, constructor = nope(1) has returned: two
\* variables were written, one evaluation failed
C21_Witness ==
  /\ pc = "done"
  /\ variableExprs = <<[key |-> "A", expr |-> SrcVars("B")], [key |-> "B", expr |-> SrcOne],
                       [key |-> "constructor", expr |-> SrcNope]>>
  /\ ctxBase.inputs = SampleInputs
  /\ DOMAIN vars.v = {"A", "B"}
  /\ Len(errors) = 1

(***************************************************************************)
(* Properties of a resolution pass                                         *)
(***************************************************************************)
\* the value name has in the mapping obj: that of its own entry, if any
OwnValue(obj, name) == IF HasOwn(obj, name) THEN obj.v[name] ELSE Undefined

\* C22: when the pass has returned, what every evaluation read through
\* vars.<name> is the value that name has in the returned vars.
C22_ReadsSeeFinalVars ==
  pc = "done" =>
    \A i \in 1..Len(evals) :
      \A d \in DepsOf(evals[i].key) :
        safeGet(evals[i].seen, d) = OwnValue(vars, d)

\* C25: a pass records at most one error tagged vars.<name>: for each
\* variable, whether the expression fails at parse time or when evaluated.
C25_OneErrorPerVariable ==
  \A key \in Defined : Cardinality(ErrorsOf(key)) <= 1

\* the evaluations of the expression of key made so far
EvalsOf(key) == {i \in 1..Len(evals) : evals[i].key = key}

\* C26: in one pass no expression is evaluated twice, and when the pass
\* returns every defined variable has been evaluated exactly once, no
\* variable is marked visiting and every defined variable is marked visited.
C26_EvaluatedExactlyOnce ==
  /\ \A key \in Defined : Cardinality(EvalsOf(key)) <= 1
  /\ pc = "done" =>
       /\ \A key \in Defined : Cardinality(EvalsOf(key)) = 1
       /\ \A i \in 1..Len(evals) : evals[i].key \in Defined
       /\ visiting = {}
       /\ visited = Defined

\* a pass over the cycle A = vars.B, B = vars.A and a third variable that
\* reads both has returned
C26_Witness ==
  /\ pc = "done"
  /\ variableExprs = <<[key |-> "A", expr |-> SrcVars("B")], [key |-> "B", expr |-> SrcVars("A")],
                       [key |-> "constructor", expr |-> SrcOr("A")]>>
  /\ CycleErrors # {}
  /\ Len(evals) = 3

\* C23: every pass terminates: every evalVar call in progress returns and
\* the pass returns its vars and errors.
C23_PassTerminates == <>(pc = "done" /\ stack = <<>>)

\* a pass over the three-variable cycle A = vars.B, B = vars.constructor,
\* constructor = vars.A has returned
C23_Witness ==
  /\ pc = "done"
  /\ variableExprs = <<[key |-> "A", expr |-> SrcVars("B")], [key |-> "B", expr |-> SrcVars("constructor")],
                       [key |-> "constructor", expr |-> SrcVars("A")]>>
  /\ CycleErrors # {}
  /\ stack = <<>>

(***************************************************************************)
(* evaluateVariables as one function: what a call returns when it runs    *)
(* from its first line to its last with nothing in between                 *)
(***************************************************************************)
RECURSIVE evalVar(_, _, _, _, _)
RECURSIVE evalDeps(_, _, _, _, _, _)
\* evalVar(key) on the locals st = [vars, errors, visiting, visited]
evalVar(defs, deps, base, key, st) ==
  IF key \in st.visited THEN st
  ELSE IF key \in st.visiting THEN [st EXCEPT !.errors = Append(@, CycleError(key))]
  ELSE Let1(evalDeps(defs, deps, base, deps[key], 1, [st EXCEPT !.visiting = @ \cup {key}]),
         LAMBDA s : Let1(evalExpression(ExprOf(defs, key),
                                        [inputs |-> base.inputs, constants |-> base.constants,
                                         vars |-> s.vars, row |-> Undefined],
                                        defaultFunctions),
           LAMBDA r : [vars |-> IF IsThrow(r.val) THEN s.vars ELSE SetProperty(s.vars, key, r.val),
                       errors |-> IF IsThrow(r.val) THEN Append(s.errors, VarError(key, r.val.v))
                                  ELSE s.errors,
                       visiting |-> s.visiting \ {key},
                       visited |-> s.visited \cup {key}]))

\* the dependency loop of evalVar from its i-th dependency on
evalDeps(defs, deps, base, ds, i, st) ==
  IF i > Len(ds) THEN st
  ELSE evalDeps(defs, deps, base, ds, i + 1,
                IF ds[i] \in Keys(defs) THEN evalVar(defs, deps, base, ds[i], st) ELSE st)

RECURSIVE scanDeps(_, _, _)
\* the dependency scan from the i-th definition on: [deps, errors]
scanDeps(defs, i, acc) ==
  IF i > Len(defs) THEN acc
  ELSE Let1(collectVarDeps(defs[i].expr),
         LAMBDA r : scanDeps(defs, i + 1,
                      [deps |-> [k \in DOMAIN acc.deps \cup {defs[i].key} |->
                                   IF k = defs[i].key THEN (IF r.ok THEN r.deps ELSE <<>>)
                                   ELSE acc.deps[k]],
                       errors |-> IF r.ok THEN acc.errors
                                  ELSE Append(acc.errors, VarError(defs[i].key, r.msg))]))

RECURSIVE evalAll(_, _, _, _, _)
\* the final loop from the i-th definition on
evalAll(defs, deps, base, i, st) ==
  IF i > Len(defs) THEN st
  ELSE evalAll(defs, deps, base, i + 1, evalVar(defs, deps, base, defs[i].key, st))

\* { vars, errors } of evaluateVariables(defs, base)
evaluateVariables(defs, base) ==
  Let1(scanDeps(defs, 1, [deps |-> EmptyRec, errors |-> <<>>]),
    LAMBDA sc : Let1(evalAll(defs, sc.deps, base, 1,
                             [vars |-> EmptyObj, errors |-> sc.errors, visiting |-> {}, visited |-> {}]),
      LAMBDA st : [vars |-> st.vars, errors |-> st.errors]))

\* C24: two calls in progress at once, switched between at any step, each
\* return the vars and errors they return when run alone.
C24_PassesDoNotInterfere ==
  /\ pc = "done" =>
       [vars |-> vars, errors |-> errors] = evaluateVariables(variableExprs, ctxBase)
  /\ (other # NoPass /\ other.pc = "done") =>
       [vars |-> other.vars, errors |-> other.errors] = evaluateVariables(other.variableExprs, ctxBase)

\* both calls have returned after switches in the middle of an evalVar; one
\* resolves the cycle A = vars.B, B = vars.A, the other
\* the same names with B = 1
C24_Witness ==
  /\ pc = "done"
  /\ other # NoPass
  /\ other.pc = "done"
  /\ variableExprs = <<[key |-> "A", expr |-> SrcVars("B")], [key |-> "B", expr |-> SrcVars("A")]>>
  /\ other.variableExprs = <<[key |-> "A", expr |-> SrcVars("B")], [key |-> "B", expr |-> SrcOne]>>
  /\ cuts = MaxCuts

(***************************************************************************)
(* renderTemplateString is a single pass                                   *)
(***************************************************************************)
RECURSIVE SpanCount(_)
\* the spans of the text s that hold an expression
SpanCount(s) ==
  IF ~HasMatch(s) THEN 0
  ELSE Let1(FirstMatch(s), LAMBDA m :
         (IF Trim(SubSeq(s, m.from + 2, m.to - 2)) = <<>> THEN 0 ELSE 1)
           + SpanCount(SubSeq(s, m.to + 1, Len(s))))

\* C27: the evaluator is called once for each span of the template that
\* holds an expression and for nothing else, and what each span evaluated to
\* stands in the result as it is, braces included.
C27_SinglePass ==
  RenderDone =>
    /\ calls = SpanCount(tpl)
    /\ out = Texts(segs)
    /\ \A k \in 1..Len(segs) :
         segs[k].kind = "span" =>
           segs[k].text = Replacer(Inner(segs[k]), renderCtx, defaultFunctions).text

\* the one span of the template evaluated to the text {{1}}, which is the
\* result
C27_Witness ==
  /\ RenderDone
  /\ tpl = SpanUpper
  /\ renderCtx.inputs = Obj([name |-> Braced])
  /\ out = Braced.v
  /\ HasMatch(out)
  /\ calls = 1

(***************************************************************************)
(* Properties of the TemplateDesigner history                              *)
(***************************************************************************)
\* C28: a redo that follows an undo, with nothing but refreshes of
\* templateRef in between or none, sets the template that was current
\* before the undo and leaves the past stack as it was before the undo.
C28_UndoRedoRestores ==
  [][(Redo /\ lastOp.op = "undo") =>
       (templateProp' = lastOp.template /\ past' = lastOp.past)]_allVars

\* C29: the past stack never holds more than HistoryLimit templates, nor do
\* past and future together, and a push on a full past stack drops its
\* oldest entry.
C29_HistoryBounded ==
  [][/\ Len(past') <= HistoryLimit
     /\ Len(past') + Len(future') <= HistoryLimit
     /\ ((ApplyTemplateChange \/ (PointerUp /\ gestureRef[dragging].didMove))
           /\ Len(past) = HistoryLimit) =>
          /\ Len(past') = HistoryLimit
          /\ SubSeq(past', 1, HistoryLimit - 1) = Tail(past)]_allVars

\* an edit was made with a full past stack: the oldest template is gone
C29_Witness ==
  /\ lastOp.op = "edit"
  /\ Len(lastOp.past) = HistoryLimit
  /\ Len(past) = HistoryLimit
  /\ past[1] = lastOp.past[2]
  /\ past[HistoryLimit] = lastOp.template

\* C30: the pointer-up of a gesture pushes the template of its pointer-down
\* when the pointer moved and nothing when it did not; the moves and frames
\* of a gesture leave the history alone; and an undo that follows a gesture
\* that moved sets the template of its pointer-down.
C30_GestureIsOneEntry ==
  [][/\ (PointerUp /\ lastOp.op = "down") =>
          IF gestureRef[dragging].didMove
          THEN /\ past' = pushHistory([past |-> past, future |-> future], lastOp.template).past
               /\ future' = <<>>
          ELSE UNCHANGED <<past, future>>
     /\ (PointerMove \/ AnimationFrame) => UNCHANGED <<past, future>>
     /\ (Undo /\ lastOp.op = "dragged") => templateProp' = lastOp.template]_allVars

====
